---- MODULE Spec2Model ----
(***************************************************************************)
(* Blueplane telemetry core: the fast path (ingest stream -> batch ->      *)
(* trace store -> CDC stream) and the slow path (priority-routed workers   *)
(* on the CDC stream -> conversations / turns).                            *)
(*                                                                         *)
(* Redis stream entries are identified by their position in the stream     *)
(* (1, 2, ...), trace-store rows by their AUTOINCREMENT sequence, which is *)
(* the row's position in trace.  Coroutines are interleaved at the points  *)
(* where control can leave them; a process kill can fall between any two   *)
(* steps of the consumer.                                                  *)
(***************************************************************************)
EXTENDS Integers, Sequences, FiniteSets, TLC

(* ---------------------------- bounds ----------------------------------- *)

\* entries the producers put on the ingest stream
MaxStream == 2
\* irregular events of one run: failing writes and publishes, stops, kills,
\* worker exceptions, CDC records published by a caller other than the fast
\* path
MaxFaults == 1
\* fast_path_batch_size of the modelled deployment (BLUEPLANE_BATCH_SIZE)
BatchSize == 2
\* direct calls on ConversationStorage in one run
MaxStoreCalls == 4
\* length of cdc:events up to which records are published in bulk; the
\* approximate MAXLEN trim lets the stream pass max_stream_length
MaxQueueLen == 100001
\* event-loop time up to which a run is followed, in ms
MaxClock == 1500

(* ---------------------------- configuration ---------------------------- *)

\* Config.metrics_workers and Config.conversation_workers
NumMetricsWorkers == 2
NumConversationWorkers == 2

(* ---------------------------- events ----------------------------------- *)

\* value of cdc_event["priority"] when the key is absent
NoPriority == 0

\* event["payload"]: the keys the workers read; "" , 0 and "null" stand for
\* an absent key
NoPayload ==
    [tool |-> "", duration_ms |-> 0, lines_added |-> 0, lines_removed |-> 0,
     accepted |-> "null"]
PayloadEvent(id, session, etype, htype, payload) ==
    [event_id |-> id, session_id |-> session, platform |-> "claude_code",
     event_type |-> etype, hook_type |-> htype, payload |-> payload]
Event(id, session, etype, htype) ==
    PayloadEvent(id, session, etype, htype, NoPayload)

\* scenario S1: UserPromptSubmit carried in event_type, no hook_type
S1Event == Event("e1", "s", "UserPromptSubmit", "")
PromptEvent == Event("e2", "s", "user_prompt", "")
SessionStartEvent == Event("e3", "s", "session_start", "")
OtherPromptEvent == Event("e4", "t", "", "BeforeSubmitPrompt")

\* scenario S3: a tool_use event of the Edit tool, then an AfterFileEdit
S3ToolEvent ==
    PayloadEvent("e2", "s", "tool_use", "",
        [tool |-> "Edit", duration_ms |-> 250, lines_added |-> 15,
         lines_removed |-> 3, accepted |-> "true"])
S3EditEvent ==
    PayloadEvent("e3", "s", "AfterFileEdit", "",
        [NoPayload EXCEPT !.accepted = "false"])

\* assistant response and stop events, by event_type and by hook
AssistantResponseEvent == Event("e5", "s", "assistant_response", "")
StopHookEvent == Event("e6", "s", "", "Stop")
AfterAgentResponseHookEvent == Event("e7", "s", "", "AfterAgentResponse")

\* session start by event_type and by hook, with event ids of their own
SessionStartTypeEvent == Event("e10", "s", "session_start", "")
SessionStartHookEvent == Event("e8", "s", "", "SessionStart")

\* a PostToolUse hook event of the Edit tool with a known acceptance
PostToolUseEditEvent ==
    PayloadEvent("e9", "s", "", "PostToolUse",
        [NoPayload EXCEPT !.tool = "Edit", !.accepted = "true"])

\* what a producer may XADD: the "data" field holds a JSON object or text
\* that json.loads rejects
JsonEntry(e) == [json |-> TRUE, object |-> TRUE, event |-> e]
BadEntry == [json |-> FALSE, object |-> FALSE, event |-> Event("", "", "", "")]
\* an entry whose data is valid JSON but not an object, such as "[]"
ListEntry == [json |-> TRUE, object |-> FALSE, event |-> Event("", "", "", "")]
EventEntries ==
    {JsonEntry(S1Event), JsonEntry(PromptEvent), JsonEntry(SessionStartEvent),
     JsonEntry(OtherPromptEvent)}
ProducerEntries == EventEntries \cup {BadEntry}

\* the events of the slow-path scenarios
DeriveEntries ==
    {JsonEntry(S3ToolEvent), JsonEntry(S3EditEvent),
     JsonEntry(AssistantResponseEvent), JsonEntry(StopHookEvent),
     JsonEntry(AfterAgentResponseHookEvent), JsonEntry(SessionStartTypeEvent),
     JsonEntry(SessionStartHookEvent), JsonEntry(PostToolUseEditEvent)}

\* inputs of calculate_priority
EventTypes ==
    {"", "user_prompt", "acceptance_decision", "tool_use", "completion",
     "performance", "latency", "session_start", "session_end",
     "UserPromptSubmit", "debug"}
HookTypes ==
    {"", "UserPromptSubmit", "BeforeSubmitPrompt", "PostToolUse",
     "AfterMCPExecution", "SessionStart", "Stop", "AfterAgentResponse"}
PriorityInputs == {Event("p", "s", t, h) : t \in EventTypes, h \in HookTypes}

MetricsWorkers == {<<"metrics", i>> : i \in 1..NumMetricsWorkers}
ConversationWorkers == {<<"conversation", i>> : i \in 1..NumConversationWorkers}
Workers == MetricsWorkers \cup ConversationWorkers
worker_type(w) == w[1]

\* the tasks main and start() create, in the order of their create_task calls
ConsumerTask == <<"consumer", 1>>
MonitorTask == <<"monitor", 1>>
NoTask == <<"none", 0>>
TaskOrder ==
    <<ConsumerTask>> \o [i \in 1..NumMetricsWorkers |-> <<"metrics", i>>]
        \o [i \in 1..NumConversationWorkers |-> <<"conversation", i>>]
        \o <<MonitorTask>>
Tasks == {TaskOrder[i] : i \in DOMAIN TaskOrder}

VARIABLES
    mq,            \* ingest stream telemetry:events, a sequence of entries
    mq_last_id,    \* last-delivered id of group "processors"
    mq_pel,        \* pending-entries list of group "processors"
    mq_acked,      \* ids on which XACK was executed
    dlq,           \* ids of the entries copied to the stream telemetry:dlq
    c_pc,          \* position of FastPathConsumer.run
    running,       \* FastPathConsumer.running
    messages,      \* ids of the current read still to be parsed
    batch,         \* run()'s local batch
    message_ids,   \* run()'s local message_ids
    ret,           \* where run() continues after _flush_batch
    trace,         \* raw_traces, row sequence = position
    cdc,           \* CDC stream cdc:events
    cdc_last_id,   \* last-delivered id of group "workers"
    cdc_reader,    \* cdc_reader[id]: class of the worker id was delivered to
    conversations, \* conversations table, id = position
    turns,         \* conversation_turns table
    code_changes,  \* code_changes table
    returned,      \* <<worker, pair, id>>: a direct get_or_create_conversation returned id
    store_calls,   \* direct calls on ConversationStorage so far
    metrics,       \* the Redis metrics store
    invoked,       \* <<class, id>>: worker.process was called
    fetched,       \* <<class, id>>: get_by_sequence was called
    acklog,        \* <<class, id>> of every acknowledge call, in order
    failed,        \* _run_worker's failed counters
    poisoned,      \* <<worker, id>>: worker.process raised on record id
    missed,        \* <<class, id>> of every get_by_sequence that found no row, in order
    flush_log,     \* the current flush: records published, publishes lost, entry ids
    faults,        \* injected failures so far, per kind
    p_event,       \* calculate_priority: argument
    p_result,      \* calculate_priority: result, 0 before the call
    q_len,         \* XLEN of cdc:events, records counted in bulk
    q_acked,       \* records of cdc:events read and acknowledged by workers
    level,         \* WorkerPoolManager._backpressure_level
    sampled,       \* what the last monitor tick saw, and the level before it
    clk,           \* event-loop time in ms
    last_flush,    \* run()'s local last_flush
    blocked,       \* ms the current XREADGROUP has been blocking
    t_unread,      \* entries on the ingest stream not yet delivered
    t_arrived,     \* entries put on the ingest stream so far
    t_batch,       \* for each event of run()'s batch, when it was appended
    max_wait,      \* longest time a flushed event had spent in the batch
    rt_rows,       \* raw_traces rows written by direct batch_insert calls
    rt_result,     \* what the last get_by_sequence call returned
    ap_table,      \* raw_traces as other connections see it: committed rows
    ap_tx,         \* rows <<call, index>> in the writer connection's open transaction
    ap_attempts,   \* the batches batch_insert was called with, in order
    ap_failed,     \* the calls that raised, by position in ap_attempts
    pool_running,  \* WorkerPoolManager.running
    pool_waited,   \* wait_for_completion has returned
    pool_stream,   \* cdc:events as the pool's tasks read it: kind of each record
    pool_last_id,  \* last-delivered id of the group on pool_stream
    pool_pel,      \* ids delivered and not acknowledged
    pool_done,     \* ids a worker has processed or skipped, and acknowledged
    w_pc,          \* position of each _run_worker task
    w_msg,         \* the record each task holds, 0 if none
    late_readers,  \* workers that issued an XREADGROUP after stop()
    pool_crashed,  \* ids that were in flight when their task was killed
    pool_starts,   \* times the server was started again so far
    zset,          \* the fallback sorted set of one series, in rank order
    z_log,         \* <<timestamp, value>> of every record_metric call, in order
    loop_current,  \* the task the event loop is running, NoTask between tasks
    loop_ready,    \* the event loop's ready queue, first in first out
    loop_sleeping, \* tasks suspended in asyncio.sleep
    loop_cdc,      \* CDC records the consumer task has published
    loop_read,     \* CDC records worker tasks have read
    loop_raised    \* per task, the exceptions its loop has caught so far

mqVars == <<mq, mq_last_id, mq_pel, mq_acked, dlq>>
consumerVars == <<c_pc, running, messages, batch, message_ids, ret>>
cdcVars == <<cdc, cdc_last_id, cdc_reader>>
workerVars == <<invoked, fetched, acklog, failed, poisoned, missed>>
derivedVars == <<conversations, turns, code_changes, returned, store_calls, metrics>>
priorityVars == <<p_event, p_result>>
monitorVars == <<q_len, q_acked, level, sampled>>
timedVars == <<clk, last_flush, blocked, t_unread, t_arrived, t_batch, max_wait>>
roundVars == <<rt_rows, rt_result>>
appendVars == <<ap_table, ap_tx, ap_attempts, ap_failed>>
seriesVars == <<zset, z_log>>
loopVars == <<loop_current, loop_ready, loop_sleeping, loop_cdc, loop_read,
              loop_raised>>
poolVars == <<pool_running, pool_waited, pool_stream, pool_last_id, pool_pel,
              pool_done, w_pc, w_msg, late_readers, pool_crashed, pool_starts>>
vars == <<mq, mq_last_id, mq_pel, mq_acked, dlq, c_pc, running, messages, batch,
          message_ids, ret, trace, cdc, cdc_last_id, cdc_reader,
          conversations, turns, code_changes, returned, store_calls, metrics, invoked, fetched, acklog, failed, poisoned, missed, flush_log,
          faults, p_event, p_result, q_len, q_acked, level, sampled, clk,
          last_flush, blocked, t_unread, t_arrived, t_batch, max_wait,
          rt_rows, rt_result, ap_table, ap_tx, ap_attempts, ap_failed,
          pool_running, pool_waited, pool_stream, pool_last_id, pool_pel,
          pool_done, w_pc, w_msg, late_readers, pool_crashed, pool_starts,
          zset, z_log, loop_current, loop_ready, loop_sleeping, loop_cdc,
          loop_read, loop_raised>>

(* ---------------------------- helpers ---------------------------------- *)

FaultKinds == {"write", "publish", "stop", "kill", "process", "external"}
FaultCount ==
    faults["write"] + faults["publish"] + faults["stop"] + faults["kill"]
        + faults["process"] + faults["external"]

Range(s) == {s[i] : i \in DOMAIN s}
Min(a, b) == IF a <= b THEN a ELSE b
MaxOf(S) == CHOOSE x \in S : \A y \in S : y <= x

(* ---------------------- fast path: pure parts -------------------------- *)

\* calculate_priority testing the session class before the prompt class
calculate_priority_session_first(event) ==
    IF event.event_type \in {"session_start", "session_end"}
       \/ event.hook_type \in {"SessionStart", "Stop"}
    THEN 4
    ELSE IF event.event_type \in {"user_prompt", "acceptance_decision"}
            \/ event.hook_type \in {"UserPromptSubmit", "BeforeSubmitPrompt"}
    THEN 1
    ELSE IF event.event_type \in {"tool_use", "completion"}
            \/ event.hook_type \in {"PostToolUse", "AfterMCPExecution"}
    THEN 2
    ELSE IF event.event_type \in {"performance", "latency"}
    THEN 3
    ELSE 5

\* FastPathConsumer.calculate_priority
calculate_priority(event) ==
    IF event.event_type \in {"user_prompt", "acceptance_decision"}
       \/ event.hook_type \in {"UserPromptSubmit", "BeforeSubmitPrompt"}
    THEN 1
    ELSE IF event.event_type \in {"tool_use", "completion"}
            \/ event.hook_type \in {"PostToolUse", "AfterMCPExecution"}
    THEN 2
    ELSE IF event.event_type \in {"performance", "latency"}
    THEN 3
    ELSE IF event.event_type \in {"session_start", "session_end"}
            \/ event.hook_type \in {"SessionStart", "Stop"}
    THEN 4
    ELSE 5

\* SQLiteTraceStorage.batch_insert: one row per event, in input order
batch_insert(rows, events) ==
    rows \o [i \in DOMAIN events |-> [event |-> events[i].event, mid |-> events[i].mid]]

\* SQLiteTraceStorage._get_sequences_by_event_ids: the SELECT is ordered by
\* sequence and the dict keeps the last row seen for an event_id
id_to_seq(rows, eid) ==
    LET S == {i \in DOMAIN rows : rows[i].event.event_id = eid}
    IN  IF S = {} THEN 0 ELSE MaxOf(S)

get_sequences_by_event_ids(rows, event_ids) ==
    [i \in DOMAIN event_ids |-> id_to_seq(rows, event_ids[i])]

\* write_batch querying the sequences before the rows are inserted
write_batch_query_first(rows, events) ==
    LET seqs == get_sequences_by_event_ids(rows,
                    [i \in DOMAIN events |-> events[i].event.event_id])
    IN  [i \in DOMAIN events |-> [events[i] EXCEPT !.sequence = seqs[i]]]

\* SQLiteBatchWriter.write_batch: the events with _sequence set
write_batch(rows, events) ==
    LET rows2 == batch_insert(rows, events)
        seqs == get_sequences_by_event_ids(rows2,
                    [i \in DOMAIN events |-> events[i].event.event_id])
    IN  [i \in DOMAIN events |-> [events[i] EXCEPT !.sequence = seqs[i]]]

\* the CDC record _flush_batch builds for one event of the batch
cdc_event(b) ==
    [sequence |-> b.sequence, event_id |-> b.event.event_id,
     priority |-> calculate_priority(b.event), fast_path |-> TRUE]

(* ---------------------- slow path: pure parts -------------------------- *)

\* cdc_event.get("priority", 5)
get_priority(rec) == IF rec.priority = NoPriority THEN 5 ELSE rec.priority

\* should_process with the same threshold for both classes
should_process_one_threshold(wtype, rec) ==
    IF wtype = "metrics" THEN get_priority(rec) <= 4
    ELSE IF wtype = "conversation" THEN get_priority(rec) <= 4
    ELSE FALSE

\* _run_worker: should_process
should_process(wtype, rec) ==
    IF wtype = "metrics" THEN get_priority(rec) <= 3
    ELSE IF wtype = "conversation" THEN get_priority(rec) <= 4
    ELSE FALSE

\* SQLiteTraceStorage.get_by_sequence: the row's event, or None
None == [event_id |-> "None"]
get_by_sequence(rows, sequence) ==
    IF sequence \in DOMAIN rows THEN rows[sequence].event ELSE None

\* ConversationStorage.get_or_create_conversation: the conversation id
find_conversation(convs, ext, platform) ==
    {i \in DOMAIN convs :
        convs[i].external_session_id = ext /\ convs[i].platform = platform}

\* acceptance_rate REAL: NULL, or the quotient num / den
NullRate == [num |-> 0, den |-> 0]

\* ConversationStorage.create_conversation
create_conversation(convs, ext, platform) ==
    Append(convs, [external_session_id |-> ext, platform |-> platform,
                   interaction_count |-> 0, acceptance_rate |-> NullRate,
                   total_changes |-> 0])

\* get_or_create_conversation without the SELECT: it always inserts
get_or_create_always_creates(convs, ext, platform) ==
    create_conversation(convs, ext, platform)

get_or_create_conversation(convs, ext, platform) ==
    IF find_conversation(convs, ext, platform) /= {}
    THEN convs
    ELSE create_conversation(convs, ext, platform)

conversation_id_of(convs, ext, platform) ==
    CHOOSE i \in find_conversation(convs, ext, platform) :
        \A j \in find_conversation(convs, ext, platform) : i <= j

\* add_turn numbering from MAX(turn_number) without the + 1
next_turn_stale(ts, cid) ==
    LET S == {ts[i].turn_number : i \in {j \in DOMAIN ts : ts[j].conversation_id = cid}}
    IN  IF S = {} THEN 1 ELSE MaxOf(S)

\* ConversationStorage.add_turn: next turn number
next_turn(ts, cid) ==
    LET S == {ts[i].turn_number : i \in {j \in DOMAIN ts : ts[j].conversation_id = cid}}
    IN  (IF S = {} THEN 0 ELSE MaxOf(S)) + 1

\* ConversationStorage.add_turn: INSERT of the turn
add_turn_rows(ts, cid, ttype, eid, w) ==
    Append(ts, [conversation_id |-> cid, turn_number |-> next_turn(ts, cid),
                turn_type |-> ttype, event_id |-> eid, worker |-> w])

\* ConversationStorage.add_turn: UPDATE of interaction_count
add_turn_count(convs, cid) ==
    [convs EXCEPT ![cid].interaction_count = @ + 1]

\* accepted BOOLEAN of a code change: 1, 0 or NULL
AcceptedValues == {"true", "false", "null"}

\* ConversationStorage.track_code_change: INSERT into code_changes
track_code_change_insert(changes, cid, accepted) ==
    Append(changes, [conversation_id |-> cid, accepted |-> accepted])

\* SELECT COUNT(*) ... WHERE conversation_id = ?
changes_total(changes, cid) ==
    Cardinality({i \in DOMAIN changes : changes[i].conversation_id = cid})

\* SELECT SUM(CASE WHEN accepted = 1 THEN 1 ELSE 0 END) ...
changes_accepted(changes, cid) ==
    Cardinality({i \in DOMAIN changes :
                    /\ changes[i].conversation_id = cid
                    /\ changes[i].accepted = "true"})

\* ConversationStorage.track_code_change: "if accepted is not None", the
\* UPDATE of acceptance_rate and total_changes; changes is the table after
\* the INSERT
track_code_change_metrics(convs, changes, cid, accepted) ==
    IF accepted = "null"
    THEN convs
    ELSE LET total == changes_total(changes, cid)
             accepted_count == changes_accepted(changes, cid)
         IN  [convs EXCEPT
                ![cid].acceptance_rate =
                    IF total > 0 THEN [num |-> accepted_count, den |-> total]
                    ELSE NullRate,
                ![cid].total_changes = total]

\* ConversationWorker.process: the branch of the if/elif chain that runs,
\* "" if none
effective_type(event) ==
    IF event.event_type /= "" THEN event.event_type ELSE event.hook_type

dispatch(event) ==
    LET t == effective_type(event)
    IN  IF t \in {"user_prompt", "UserPromptSubmit", "BeforeSubmitPrompt"}
        THEN "user_prompt"
        ELSE IF t \in {"assistant_response", "AfterAgentResponse"}
        THEN "assistant_response"
        ELSE IF t \in {"tool_use", "PostToolUse", "AfterMCPExecution"}
        THEN "tool_use"
        ELSE IF t \in {"code_change", "AfterFileEdit"}
        THEN "code_change"
        ELSE IF t = "PostToolUse"
        THEN "tool_use_and_code_change"
        ELSE ""

\* ConversationWorker._process_code_change: the change is tracked only with
\* lines added or removed or a known acceptance; <<conversations, changes>>
process_code_change(convs, changes, cid, event) ==
    LET p == event.payload
    IN  IF p.lines_added > 0 \/ p.lines_removed > 0 \/ p.accepted /= "null"
        THEN LET changes2 == track_code_change_insert(changes, cid, p.accepted)
             IN  <<track_code_change_metrics(convs, changes2, cid, p.accepted),
                   changes2>>
        ELSE <<convs, changes>>

(* ---------------------- RedisMetricsStorage ---------------------------- *)

\* key = f"metric:{category}:{name}"
metric_key(category, name) == "metric:" \o category \o ":" \o name

\* the metrics store: samples of the series, counters and gauges by key
NoMetrics ==
    [samples |-> {}, counters |-> [k \in {} |-> 0], gauges |-> [k \in {} |-> NullRate]]

\* record_metric: TS.ADD, or ZADD on the fallback sorted set
record_metric(m, category, name, value) ==
    [m EXCEPT !.samples = @ \cup {<<metric_key(category, name), value>>}]

\* redis.get(key) or 0
counter_value(m, key) ==
    IF key \in DOMAIN m.counters THEN m.counters[key] ELSE 0

\* increment_counter: INCRBY key 1
increment_counter(m, category, name) ==
    LET key == metric_key(category, name)
    IN  [m EXCEPT !.counters =
            [k \in DOMAIN m.counters \cup {key} |->
                IF k = key THEN counter_value(m, key) + 1 ELSE m.counters[k]]]

\* set_gauge: SET key value
set_gauge(m, category, name, value) ==
    LET key == metric_key(category, name)
    IN  [m EXCEPT !.gauges =
            [k \in DOMAIN m.gauges \cup {key} |->
                IF k = key THEN value ELSE m.gauges[k]]]

(* ---------------------- MetricsWorker: pure parts ---------------------- *)

\* MetricsWorker._process_tool_use
metrics_process_tool_use(m, event) ==
    LET duration_ms == event.payload.duration_ms
        tool_name == event.payload.tool
        m1 == record_metric(m, "tools", "tool_latency", duration_ms)
        m2 == IF tool_name /= ""
              THEN record_metric(m1, "tools:" \o tool_name, "latency", duration_ms)
              ELSE m1
    IN  IF duration_ms /= 0
        THEN increment_counter(m2, "tools", "tool_use_count")
        ELSE m

\* MetricsWorker._process_acceptance
metrics_process_acceptance(m, event) ==
    LET accepted == event.payload.accepted
        m1 == increment_counter(m, "session", "total_decisions")
        m2 == IF accepted = "true"
              THEN increment_counter(m1, "session", "accepted_decisions")
              ELSE m1
        total == counter_value(m2, metric_key("session", "total_decisions"))
        accepted_count ==
            counter_value(m2, metric_key("session", "accepted_decisions"))
    IN  IF accepted = "null" THEN m
        ELSE set_gauge(m2, "session", "acceptance_rate",
                       [num |-> accepted_count, den |-> total])

\* MetricsWorker._process_session_start
metrics_process_session_start(m) ==
    record_metric(increment_counter(m, "realtime", "active_sessions"),
                  "realtime", "session_starts", 1)

\* the duration_ms column batch_insert fills, 0 for NULL
row_duration_ms(row) == row.event.payload.duration_ms

\* SQLiteTraceStorage.calculate_session_metrics: SUM and COUNT of the
\* non-NULL duration_ms of the session's rows, as AVG = num / den
RECURSIVE session_duration(_, _, _)
session_duration(rows, session_id, n) ==
    IF n = 0 THEN NullRate
    ELSE LET rest == session_duration(rows, session_id, n - 1)
         IN  IF rows[n].event.session_id = session_id
                  /\ row_duration_ms(rows[n]) /= 0
             THEN [num |-> rest.num + row_duration_ms(rows[n]),
                   den |-> rest.den + 1]
             ELSE rest

\* MetricsWorker._update_session_metrics: no event of the model carries
\* tokens_used, so total_tokens is 0 and only avg_latency_ms can be set
update_session_metrics(m, rows, session_id) ==
    LET avg == session_duration(rows, session_id, Len(rows))
    IN  IF avg.num /= 0
        THEN set_gauge(m, "session:" \o session_id, "avg_latency_ms", avg)
        ELSE m

\* MetricsWorker.process after get_by_sequence returned the event: the
\* branch is chosen by event_type alone
metrics_process(m, rows, event) ==
    LET t == event.event_type
        m1 == IF t \in {"tool_use", "PostToolUse", "AfterMCPExecution"}
              THEN metrics_process_tool_use(m, event)
              ELSE IF t \in {"acceptance_decision", "code_change"}
              THEN metrics_process_acceptance(m, event)
              ELSE IF t \in {"session_start", "SessionStart"}
              THEN metrics_process_session_start(m)
              ELSE m
    IN  update_session_metrics(m1, rows, event.session_id)

(* ---------------------- raw_traces: event_data ------------------------- *)

\* Python values as json.loads builds them: t is the type, v the text of a
\* scalar, items the elements of a list
PyStr(s) == [t |-> "str", v |-> s, items |-> <<>>]
PyInt(s) == [t |-> "int", v |-> s, items |-> <<>>]
PyBool(s) == [t |-> "bool", v |-> s, items |-> <<>>]
PyNone == [t |-> "none", v |-> "None", items |-> <<>>]
PyList(xs) == [t |-> "list", v |-> "", items |-> xs]

\* JSON text, by production: j is the kind of value, text its characters,
\* elems the elements of an array
JsonOf(kind, s) == [j |-> kind, text |-> s, elems |-> <<>>]
JsonArray(xs) == [j |-> "array", text |-> "", elems |-> xs]

\* the default= hook of json.dumps in batch_insert: str(o)
json_default(o) == PyStr(o.v)

\* json.dumps with the default= hook applied to every value that is not text
json_dumps_scalar_all_default(o) ==
    IF o.t = "str" THEN JsonOf("string", o.v)
    ELSE JsonOf("string", json_default(o).v)

\* json.dumps of a scalar: the encoder writes str, bool, int and None
\* itself and hands every other type to default=
json_dumps_scalar(o) ==
    IF o.t = "str" THEN JsonOf("string", o.v)
    ELSE IF o.t = "bool" THEN JsonOf(IF o.v = "True" THEN "true" ELSE "false", "")
    ELSE IF o.t = "int" THEN JsonOf("number", o.v)
    ELSE IF o.t = "none" THEN JsonOf("null", "")
    ELSE JsonOf("string", json_default(o).v)

\* json.dumps of a value: lists and tuples are written as arrays
json_dumps_value(o) ==
    IF o.t \in {"list", "tuple"}
    THEN JsonArray([i \in DOMAIN o.items |-> json_dumps_scalar(o.items[i])])
    ELSE json_dumps_scalar(o)

\* json.dumps(event, default=str): one member per key of the dict
json_dumps(event) == [k \in DOMAIN event |-> json_dumps_value(event[k])]

\* json.loads of a scalar
json_loads_scalar(x) ==
    IF x.j = "string" THEN PyStr(x.text)
    ELSE IF x.j = "number" THEN PyInt(x.text)
    ELSE IF x.j = "true" THEN PyBool("True")
    ELSE IF x.j = "false" THEN PyBool("False")
    ELSE PyNone

\* json.loads of a value: arrays become lists
json_loads_value(x) ==
    IF x.j = "array"
    THEN PyList([i \in DOMAIN x.elems |-> json_loads_scalar(x.elems[i])])
    ELSE json_loads_scalar(x)

\* json.loads(text): a dict with the members' keys
json_loads(text) == [k \in DOMAIN text |-> json_loads_value(text[k])]

\* zlib.compress / zlib.decompress of the encoded text
zlib_compress(text) == [deflate |-> text]
zlib_decompress(blob) == blob.deflate

\* batch_insert's row for one event: the columns get_by_sequence reads;
\* sequence is AUTOINCREMENT and ingested_at is CURRENT_TIMESTAMP
DbNow == PyStr("2024-01-01 00:00:00")
insert_row(rows, event) ==
    [sequence |-> Len(rows) + 1, ingested_at |-> DbNow,
     event_data |-> zlib_compress(json_dumps(event)), appended |-> event]

\* event[key] = value on a dict
SetItem(d, key, value) ==
    [k \in DOMAIN d \cup {key} |-> IF k = key THEN value ELSE d[k]]

\* the two assignments at the end of get_by_sequence
sequence_value(n) == PyInt(ToString(n))
merge_indexed(event, row) ==
    SetItem(SetItem(event, "_sequence", sequence_value(row.sequence)),
            "_ingested_at", row.ingested_at)

\* get_by_sequence on the rows written: decompress, parse, merge
row_event(row) == merge_indexed(json_loads(zlib_decompress(row.event_data)), row)

\* rt_result before the first get_by_sequence
NoResult == [sequence |-> 0, event |-> [k \in {} |-> PyNone]]

(* ---------------------------- initial state ---------------------------- *)

PipelineInit ==
    /\ mq = <<>> /\ mq_last_id = 0 /\ mq_pel = {} /\ mq_acked = {}
    /\ dlq = {}
    /\ c_pc = "read" /\ running = TRUE /\ messages = <<>>
    /\ batch = <<>> /\ message_ids = <<>> /\ ret = "read"
    /\ trace = <<>>
    /\ cdc = <<>> /\ cdc_last_id = 0 /\ cdc_reader = <<>>
    /\ conversations = <<>> /\ turns = <<>>
    /\ code_changes = <<>> /\ returned = {} /\ store_calls = 0
    /\ metrics = NoMetrics
    /\ q_len = 0 /\ q_acked = 0 /\ level = "green"
    /\ sampled = [queue_length |-> 0, unprocessed |-> 0, ticked |-> FALSE,
                  failed |-> FALSE, level_before |-> "green"]
    /\ clk = 0 /\ last_flush = 0 /\ blocked = 0
    /\ t_unread = 0 /\ t_arrived = 0 /\ t_batch = <<>> /\ max_wait = 0
    /\ rt_rows = <<>> /\ rt_result = NoResult
    /\ ap_table = <<>> /\ ap_tx = <<>> /\ ap_attempts = <<>> /\ ap_failed = {}
    /\ invoked = {} /\ fetched = {}
    /\ acklog = <<>> /\ missed = <<>>
    /\ pool_running = TRUE /\ pool_waited = FALSE
    /\ pool_stream = <<>> /\ pool_last_id = 0
    /\ pool_pel = {} /\ pool_done = {}
    /\ w_pc = [w \in Workers |-> "test"] /\ w_msg = [w \in Workers |-> 0]
    /\ late_readers = {} /\ pool_crashed = {} /\ pool_starts = 0
    /\ loop_current = NoTask /\ loop_ready = TaskOrder
    /\ loop_sleeping = {} /\ loop_cdc = 0 /\ loop_read = 0
    /\ loop_raised = [t \in Tasks |-> 0]
    /\ failed = [w \in Workers |-> 0] /\ poisoned = {}
    /\ flush_log = [published |-> <<>>, lost |-> 0, ids |-> {}]
    /\ faults = [k \in FaultKinds |-> 0]

\* a series nothing was recorded on
SeriesEmpty == zset = <<>> /\ z_log = <<>>

Init ==
    /\ PipelineInit
    /\ p_event = S1Event /\ p_result = 0
    /\ SeriesEmpty

(* ---------------------------- producers -------------------------------- *)

\* XADD of one entry to telemetry:events
Added(entry) ==
    /\ Len(mq) < MaxStream
    /\ mq' = Append(mq, entry)
    /\ UNCHANGED <<mq_last_id, mq_pel, mq_acked, dlq, consumerVars, trace, cdcVars,
                   workerVars, derivedVars, flush_log, faults, priorityVars, monitorVars, timedVars, roundVars, appendVars, poolVars, seriesVars, loopVars>>

\* a producer XADDs an entry, well-formed or not
Produce == \E entry \in ProducerEntries : Added(entry)

\* a hook script XADDs the JSON of an event
ProduceEvent == \E entry \in EventEntries : Added(entry)

\* CDCPublisher.publish called directly with a record that has no priority
ExternalRecord ==
    [sequence |-> 1, event_id |-> "x", priority |-> NoPriority,
     fast_path |-> FALSE]

PublishExternal ==
    /\ FaultCount < MaxFaults
    /\ faults' = [faults EXCEPT !["external"] = @ + 1]
    /\ cdc' = Append(cdc, ExternalRecord)
    /\ UNCHANGED <<mqVars, consumerVars, trace, cdc_last_id, cdc_reader,
                   workerVars, derivedVars, flush_log, priorityVars, monitorVars, timedVars, roundVars, appendVars, poolVars, seriesVars, loopVars>>

(* ---------------------------- FastPathConsumer.run --------------------- *)

\* ids XREADGROUP ">" count=batch_size hands out: never-delivered entries only
xreadgroup_new ==
    LET n == Min(BatchSize, Len(mq) - mq_last_id)
    IN  [i \in 1..n |-> mq_last_id + i]

\* "for message_id, fields in message_list" up to the next _flush_batch call
\* or the end of the list: <<messages left, batch, message_ids, raised>>.
\* An entry whose data json.loads rejects is skipped (continue); on a value
\* that is not a dict, event["_ingested_at"] = ... raises and the for loop
\* is left with the rest of the list unread.
RECURSIVE parse_messages(_, _, _)
parse_messages(msgs, b, ids) ==
    IF msgs = <<>> \/ Len(b) >= BatchSize
    THEN <<msgs, b, ids, FALSE>>
    ELSE LET id == Head(msgs)
         IN  IF ~mq[id].json
             THEN parse_messages(Tail(msgs), b, ids)
             ELSE IF ~mq[id].object
             THEN <<<<>>, b, ids, TRUE>>
             ELSE parse_messages(Tail(msgs),
                      Append(b, [event |-> mq[id].event, mid |-> id,
                                 sequence |-> 0]),
                      Append(ids, id))

\* the for loop flushing only when the batch has grown beyond batch_size
ParseFrom_flush_beyond(msgs) ==
    LET r == parse_messages(msgs, batch, message_ids)
    IN  /\ messages' = r[1]
        /\ batch' = r[2]
        /\ message_ids' = r[3]
        /\ IF r[4]
           THEN c_pc' = "read" /\ ret' = "read"
           ELSE IF Len(r[2]) > BatchSize
           THEN c_pc' = "flush" /\ ret' = "parse"
           ELSE \E timed_out \in BOOLEAN :
                  IF r[2] /= <<>> /\ timed_out
                  THEN c_pc' = "flush" /\ ret' = "read"
                  ELSE c_pc' = "read" /\ ret' = "read"

\* the for loop from msgs on, then the timeout check after it: a full batch
\* is flushed inside the loop, a partial one after it when batch_timeout
\* has passed since last_flush; after an exception run() sleeps 1 s and
\* reads again
ParseFrom(msgs) ==
    LET r == parse_messages(msgs, batch, message_ids)
    IN  /\ messages' = r[1]
        /\ batch' = r[2]
        /\ message_ids' = r[3]
        /\ IF r[4]
           THEN c_pc' = "read" /\ ret' = "read"
           ELSE IF Len(r[2]) >= BatchSize
           THEN c_pc' = "flush" /\ ret' = "parse"
           ELSE \E timed_out \in BOOLEAN :
                  IF r[2] /= <<>> /\ timed_out
                  THEN c_pc' = "flush" /\ ret' = "read"
                  ELSE c_pc' = "read" /\ ret' = "read"

\* the read returns entries, which enter the pending-entries list, and the
\* loop body runs on them
ConsumerReadMessages ==
    /\ c_pc = "read" /\ running
    /\ Len(xreadgroup_new) > 0
    /\ mq_last_id' = mq_last_id + Len(xreadgroup_new)
    /\ mq_pel' = mq_pel \cup Range(xreadgroup_new)
    /\ ParseFrom(xreadgroup_new)
    /\ UNCHANGED <<mq, mq_acked, dlq, running, trace, cdcVars, workerVars,
                   derivedVars, flush_log, faults, priorityVars, monitorVars, timedVars, roundVars, appendVars, poolVars, seriesVars, loopVars>>

\* the read blocked for 1000 ms and returned nothing: a non-empty batch is
\* older than batch_timeout (100 ms) and is flushed
ConsumerReadEmpty ==
    /\ c_pc = "read" /\ running
    /\ Len(xreadgroup_new) = 0
    /\ batch /= <<>>
    /\ c_pc' = "flush" /\ ret' = "read"
    /\ UNCHANGED <<mqVars, running, messages, batch, message_ids, trace,
                   cdcVars, workerVars, derivedVars, flush_log, faults, priorityVars, monitorVars, timedVars, roundVars, appendVars, poolVars, seriesVars, loopVars>>

\* _flush_batch was called inside the for loop and has returned: the loop
\* goes on with the rest of the list
ConsumerParse ==
    /\ c_pc = "parse"
    /\ ParseFrom(messages)
    /\ UNCHANGED <<mqVars, running, trace, cdcVars, workerVars, derivedVars,
                   flush_log, faults, priorityVars, monitorVars, timedVars, roundVars, appendVars, poolVars, seriesVars, loopVars>>

(* ---------------------------- _flush_batch ----------------------------- *)

\* writer.write_batch(batch) returns: rows committed, _sequence set
FlushWrite ==
    /\ c_pc = "flush"
    /\ trace' = batch_insert(trace, batch)
    /\ batch' = write_batch(trace, batch)
    /\ flush_log' = [published |-> <<>>, lost |-> 0,
                     ids |-> Range(message_ids)]
    /\ c_pc' = "publish"
    /\ UNCHANGED <<mqVars, running, messages, message_ids, ret, cdcVars,
                   workerVars, derivedVars, faults, priorityVars, monitorVars, timedVars, roundVars, appendVars, poolVars, seriesVars, loopVars>>

\* _flush_batch acknowledging although write_batch raised
FlushWriteRaises_acks ==
    /\ c_pc = "flush"
    /\ FaultCount < MaxFaults
    /\ faults' = [faults EXCEPT !["write"] = @ + 1]
    /\ mq_pel' = mq_pel \ Range(message_ids)
    /\ mq_acked' = mq_acked \cup Range(message_ids)
    /\ batch' = <<>> /\ message_ids' = <<>>
    /\ c_pc' = ret
    /\ UNCHANGED <<mq, mq_last_id, dlq, running, messages, ret, trace, cdcVars,
                   workerVars, derivedVars, flush_log, priorityVars, monitorVars, timedVars, roundVars, appendVars, poolVars, seriesVars, loopVars>>

\* writer.write_batch(batch) raises: _flush_batch logs and returns, the
\* caller empties batch and message_ids
FlushWriteRaises ==
    /\ c_pc = "flush"
    /\ FaultCount < MaxFaults
    /\ faults' = [faults EXCEPT !["write"] = @ + 1]
    /\ batch' = <<>> /\ message_ids' = <<>>
    /\ c_pc' = ret
    /\ UNCHANGED <<mqVars, running, messages, ret, trace, cdcVars, workerVars,
                   derivedVars, flush_log, priorityVars, monitorVars, timedVars, roundVars, appendVars, poolVars, seriesVars, loopVars>>

\* the records of the batch's events whose position is in keep
SelectSeq2(s, keep) ==
    LET F[i \in 0..Len(s)] ==
            IF i = 0 THEN <<>>
            ELSE IF i \in keep THEN Append(F[i - 1], s[i]) ELSE F[i - 1]
    IN  F[Len(s)]

\* "for event in batch: cdc_publisher.publish(cdc_event)" where the XADDs of
\* the positions in lost fail: publish swallows the exception
Published(lost) ==
    LET records == SelectSeq2([i \in DOMAIN batch |-> cdc_event(batch[i])],
                              DOMAIN batch \ lost)
    IN  /\ cdc' = cdc \o records
        /\ flush_log' = [published |-> records, lost |-> Cardinality(lost),
                         ids |-> flush_log.ids]
        /\ c_pc' = "ack"

\* every publish of the flush succeeds
FlushPublish ==
    /\ c_pc = "publish"
    /\ Published({})
    /\ UNCHANGED <<mqVars, running, messages, batch, message_ids, ret, trace,
                   cdc_last_id, cdc_reader, workerVars, derivedVars,
                   faults, priorityVars, monitorVars, timedVars, roundVars, appendVars, poolVars, seriesVars, loopVars>>

\* a failing publish raising into _flush_batch: the records before it are
\* published, the except branch runs and nothing is acknowledged
FlushPublishLossy_raises ==
    /\ c_pc = "publish"
    /\ FaultCount < MaxFaults
    /\ faults' = [faults EXCEPT !["publish"] = @ + 1]
    /\ \E first \in DOMAIN batch :
         LET records == [i \in 1..(first - 1) |-> cdc_event(batch[i])]
         IN  /\ cdc' = cdc \o records
             /\ flush_log' = [published |-> records,
                              lost |-> Len(batch) - first + 1,
                              ids |-> flush_log.ids]
    /\ batch' = <<>> /\ message_ids' = <<>>
    /\ c_pc' = ret
    /\ UNCHANGED <<mqVars, running, messages, ret, trace,
                   cdc_last_id, cdc_reader, workerVars, derivedVars,
                   priorityVars, monitorVars, timedVars, roundVars, appendVars, poolVars, seriesVars, loopVars>>

\* some publishes of the flush fail
FlushPublishLossy ==
    /\ c_pc = "publish"
    /\ FaultCount < MaxFaults
    /\ faults' = [faults EXCEPT !["publish"] = @ + 1]
    /\ \E lost \in SUBSET DOMAIN batch : lost /= {} /\ Published(lost)
    /\ UNCHANGED <<mqVars, running, messages, batch, message_ids, ret, trace,
                   cdc_last_id, cdc_reader, workerVars, derivedVars, priorityVars, monitorVars, timedVars, roundVars, appendVars, poolVars, seriesVars, loopVars>>

\* redis.xack(stream, group, *message_ids), then the caller empties the batch
\* _flush_batch acknowledging every pending entry of the group
FlushAck_all_pending ==
    /\ c_pc = "ack"
    /\ mq_pel' = {}
    /\ mq_acked' = mq_acked \cup mq_pel
    /\ batch' = <<>> /\ message_ids' = <<>>
    /\ c_pc' = ret
    /\ UNCHANGED <<mq, mq_last_id, dlq, running, messages, ret, trace, cdcVars,
                   workerVars, derivedVars, flush_log, faults,
                   priorityVars, monitorVars, timedVars, roundVars, appendVars,
                   poolVars, seriesVars, loopVars>>

FlushAck ==
    /\ c_pc = "ack"
    /\ mq_pel' = mq_pel \ Range(message_ids)
    /\ mq_acked' = mq_acked \cup Range(message_ids)
    /\ batch' = <<>> /\ message_ids' = <<>>
    /\ c_pc' = ret
    /\ UNCHANGED <<mq, mq_last_id, dlq, running, messages, ret, trace, cdcVars,
                   workerVars, derivedVars, flush_log, faults,
                   priorityVars, monitorVars, timedVars, roundVars, appendVars, poolVars, seriesVars, loopVars>>

(* ---------------------------- stop, kill, restart ---------------------- *)

\* FastPathConsumer.stop
ConsumerStop ==
    /\ running /\ c_pc /= "dead"
    /\ FaultCount < MaxFaults
    /\ faults' = [faults EXCEPT !["stop"] = @ + 1]
    /\ running' = FALSE
    /\ UNCHANGED <<mqVars, c_pc, messages, batch, message_ids, ret, trace,
                   cdcVars, workerVars, derivedVars, flush_log,
                   priorityVars, monitorVars, timedVars, roundVars, appendVars, poolVars, seriesVars, loopVars>>

\* "while self.running" is false: run() returns, its locals are gone
ConsumerExit ==
    /\ c_pc = "read" /\ ~running
    /\ c_pc' = "dead"
    /\ messages' = <<>> /\ batch' = <<>> /\ message_ids' = <<>>
    /\ UNCHANGED <<mqVars, running, ret, trace, cdcVars, workerVars,
                   derivedVars, flush_log, faults, priorityVars, monitorVars, timedVars, roundVars, appendVars, poolVars, seriesVars, loopVars>>

\* the process is killed at any point of the loop
ConsumerKill ==
    /\ c_pc /= "dead"
    /\ FaultCount < MaxFaults
    /\ faults' = [faults EXCEPT !["kill"] = @ + 1]
    /\ c_pc' = "dead"
    /\ messages' = <<>> /\ batch' = <<>> /\ message_ids' = <<>>
    /\ UNCHANGED <<mqVars, running, ret, trace, cdcVars, workerVars,
                   derivedVars, flush_log, priorityVars, monitorVars, timedVars, roundVars, appendVars, poolVars, seriesVars, loopVars>>

\* a new FastPathConsumer is constructed and run() is started: the group
\* exists (BUSYGROUP), the loop reads ">" again
ConsumerRestart ==
    /\ c_pc = "dead"
    /\ c_pc' = "read" /\ running' = TRUE /\ ret' = "read"
    /\ UNCHANGED <<mqVars, messages, batch, message_ids, trace, cdcVars,
                   workerVars, derivedVars, flush_log, faults,
                   priorityVars, monitorVars, timedVars, roundVars, appendVars, poolVars, seriesVars, loopVars>>

(* ---------------------------- WorkerPoolManager._run_worker ------------ *)

\* One iteration of the "async for" in _run_worker.  CDCWorkQueue.consume,
\* worker.process and CDCWorkQueue.acknowledge never suspend on the way from
\* the XREADGROUP to the XACK (every await in them is of a coroutine that
\* runs to completion), so no other task of the event loop runs in between.

\* CDCWorkQueue.consume: XREADGROUP ">" count=1 on group "workers", which
\* the workers of both classes share: the next never-delivered record
consume_id == cdc_last_id + 1

Consumed(w) ==
    /\ cdc_last_id < Len(cdc)
    /\ cdc_last_id' = consume_id
    /\ cdc_reader' = Append(cdc_reader, worker_type(w))

\* CDCWorkQueue.acknowledge: XACK of the message id
Acknowledged(w) ==
    /\ acklog' = Append(acklog, <<worker_type(w), consume_id>>)

\* "if not should_process": acknowledge and continue
WorkerSkip(w) ==
    /\ Consumed(w)
    /\ ~should_process(worker_type(w), cdc[consume_id])
    /\ Acknowledged(w)
    /\ UNCHANGED <<mqVars, consumerVars, trace, cdc, derivedVars, invoked,
                   fetched, failed, poisoned, missed, flush_log, faults,
                   priorityVars, monitorVars, timedVars, roundVars, appendVars, poolVars, seriesVars, loopVars>>

\* ConversationWorker.process after get_by_sequence returned the event:
\* <<conversations, turns, code_changes>> after the call
conversation_process(convs, ts, changes, event, w) ==
    LET ext == event.session_id
        convs2 == get_or_create_conversation(convs, ext, event.platform)
        cid == conversation_id_of(convs2, ext, event.platform)
        branch == dispatch(event)
        with_turn(ttype) ==
            <<add_turn_count(convs2, cid),
              add_turn_rows(ts, cid, ttype, event.event_id, w)>>
    IN  IF branch \in {"user_prompt", "assistant_response", "tool_use"}
        THEN <<with_turn(branch)[1], with_turn(branch)[2], changes>>
        ELSE IF branch = "code_change"
        THEN <<process_code_change(convs2, changes, cid, event)[1], ts,
               process_code_change(convs2, changes, cid, event)[2]>>
        ELSE IF branch = "tool_use_and_code_change"
        THEN IF event.payload.tool = "Edit" /\ event.payload.accepted /= "null"
             THEN <<process_code_change(with_turn("tool_use")[1], changes,
                                        cid, event)[1],
                    with_turn("tool_use")[2],
                    process_code_change(with_turn("tool_use")[1], changes,
                                        cid, event)[2]>>
             ELSE <<with_turn("tool_use")[1], with_turn("tool_use")[2], changes>>
        ELSE <<convs2, ts, changes>>

\* worker.process(cdc_event) returns, then acknowledge
WorkerProcess(w) ==
    /\ Consumed(w)
    /\ should_process(worker_type(w), cdc[consume_id])
    /\ LET rec == cdc[consume_id]
           reads == rec.sequence /= 0
           event == get_by_sequence(trace, rec.sequence)
       IN  /\ reads => event /= None
           /\ invoked' = invoked \cup {<<worker_type(w), consume_id>>}
           /\ fetched' = IF reads THEN fetched \cup {<<worker_type(w), consume_id>>} ELSE fetched
           /\ IF reads /\ worker_type(w) = "conversation"
              THEN LET r == conversation_process(conversations, turns,
                                                 code_changes, event, w)
                   IN  /\ conversations' = r[1]
                       /\ turns' = r[2]
                       /\ code_changes' = r[3]
                       /\ UNCHANGED <<returned, store_calls, metrics>>
              ELSE IF reads /\ worker_type(w) = "metrics"
              THEN /\ metrics' = metrics_process(metrics, trace, event)
                   /\ UNCHANGED <<conversations, turns, code_changes,
                                  returned, store_calls>>
              ELSE UNCHANGED derivedVars
    /\ Acknowledged(w)
    /\ UNCHANGED <<mqVars, consumerVars, trace, cdc, failed, poisoned, missed,
                   flush_log, faults, priorityVars, monitorVars, timedVars, roundVars, appendVars, poolVars, seriesVars, loopVars>>

\* the exception of worker.process leaving _run_worker's inner try without
\* the acknowledge of the except branch
WorkerProcessRaises_unacked(w) ==
    /\ cdc_last_id < Len(cdc)
    /\ cdc_last_id' = consume_id
    /\ cdc_reader' = Append(cdc_reader, worker_type(w))
    /\ should_process(worker_type(w), cdc[consume_id])
    /\ cdc[consume_id].sequence /= 0
    /\ FaultCount < MaxFaults
    /\ faults' = [faults EXCEPT !["process"] = @ + 1]
    /\ invoked' = invoked \cup {<<worker_type(w), consume_id>>}
    /\ fetched' = fetched \cup {<<worker_type(w), consume_id>>}
    /\ failed' = [failed EXCEPT ![w] = @ + 1]
    /\ poisoned' = poisoned \cup {<<w, consume_id>>}
    /\ UNCHANGED <<mqVars, consumerVars, trace, cdc, derivedVars, acklog, missed,
                   flush_log, priorityVars, monitorVars, timedVars, roundVars, appendVars, poolVars, seriesVars, loopVars>>

\* worker.process raises while reading the row: failed += 1, acknowledge
WorkerProcessRaises(w) ==
    /\ Consumed(w)
    /\ should_process(worker_type(w), cdc[consume_id])
    /\ cdc[consume_id].sequence /= 0
    /\ FaultCount < MaxFaults
    /\ faults' = [faults EXCEPT !["process"] = @ + 1]
    /\ invoked' = invoked \cup {<<worker_type(w), consume_id>>}
    /\ fetched' = fetched \cup {<<worker_type(w), consume_id>>}
    /\ failed' = [failed EXCEPT ![w] = @ + 1]
    /\ poisoned' = poisoned \cup {<<w, consume_id>>}
    /\ Acknowledged(w)
    /\ UNCHANGED <<mqVars, consumerVars, trace, cdc, derivedVars, missed, flush_log, priorityVars, monitorVars, timedVars, roundVars, appendVars, poolVars, seriesVars, loopVars>>

(* ---------------------------- records ahead of their row --------------- *)

\* a CDC record with priority 1 that names the sequence of the next row of
\* the trace store, which no connection sees yet
AheadRecord ==
    [sequence |-> Len(trace) + 1, event_id |-> "x", priority |-> 1,
     fast_path |-> FALSE]

\* XADD of such a record to cdc:events
PublishAhead ==
    /\ FaultCount < MaxFaults
    /\ faults' = [faults EXCEPT !["external"] = @ + 1]
    /\ cdc' = Append(cdc, AheadRecord)
    /\ UNCHANGED <<mqVars, consumerVars, trace, cdc_last_id, cdc_reader,
                   workerVars, derivedVars, flush_log, priorityVars,
                   monitorVars, timedVars, roundVars, appendVars, poolVars, seriesVars, loopVars>>

\* worker.process(cdc_event) where get_by_sequence finds no row: "if not
\* event: return", and _run_worker acknowledges as after any other return
WorkerProcessMissing(w) ==
    /\ Consumed(w)
    /\ should_process(worker_type(w), cdc[consume_id])
    /\ cdc[consume_id].sequence /= 0
    /\ get_by_sequence(trace, cdc[consume_id].sequence) = None
    /\ invoked' = invoked \cup {<<worker_type(w), consume_id>>}
    /\ fetched' = fetched \cup {<<worker_type(w), consume_id>>}
    /\ missed' = Append(missed, <<worker_type(w), consume_id>>)
    /\ Acknowledged(w)
    /\ UNCHANGED <<mqVars, consumerVars, trace, cdc, derivedVars, failed,
                   poisoned, flush_log, faults, priorityVars, monitorVars,
                   timedVars, roundVars, appendVars, poolVars, seriesVars, loopVars>>

MissNext ==
    \/ ProduceEvent
    \/ PublishAhead
    \/ ConsumerReadMessages
    \/ ConsumerReadEmpty
    \/ ConsumerParse
    \/ FlushWrite
    \/ FlushPublish
    \/ FlushAck
    \/ \E w \in Workers : WorkerSkip(w)
    \/ \E w \in Workers : WorkerProcess(w)
    \/ \E w \in Workers : WorkerProcessMissing(w)

MissSpec == Init /\ [][MissNext]_vars

(* ---------------------------- ConversationStorage alone ---------------- *)

\* the (external_session_id, platform) pairs of the calls
StorePairs ==
    {<<"s", "claude_code">>, <<"s", "cursor">>, <<"t", "claude_code">>}

\* conversation worker w calls get_or_create_conversation
StoreGetOrCreate(w, pair) ==
    /\ store_calls < MaxStoreCalls
    /\ store_calls' = store_calls + 1
    /\ conversations' = get_or_create_conversation(conversations, pair[1], pair[2])
    /\ returned' = returned \cup
           {<<w, pair, conversation_id_of(conversations', pair[1], pair[2])>>}
    /\ UNCHANGED <<mqVars, consumerVars, trace, cdcVars, workerVars, turns, metrics,
                   code_changes, flush_log, faults, priorityVars, monitorVars, timedVars, roundVars, appendVars, poolVars, seriesVars, loopVars>>

\* _process_code_change calls track_code_change for conversation cid
StoreTrackCodeChange(cid, accepted) ==
    /\ store_calls < MaxStoreCalls
    /\ store_calls' = store_calls + 1
    /\ cid \in DOMAIN conversations
    /\ code_changes' = track_code_change_insert(code_changes, cid, accepted)
    /\ conversations' =
           track_code_change_metrics(conversations, code_changes', cid, accepted)
    /\ UNCHANGED <<mqVars, consumerVars, trace, cdcVars, workerVars, turns, metrics,
                   returned, flush_log, faults, priorityVars, monitorVars, timedVars, roundVars, appendVars, poolVars, seriesVars, loopVars>>

StoreNext ==
    \/ \E w \in ConversationWorkers, pair \in StorePairs :
          StoreGetOrCreate(w, pair)
    \/ \E cid \in 1..MaxStoreCalls, accepted \in AcceptedValues :
          StoreTrackCodeChange(cid, accepted)

StoreSpec == Init /\ [][StoreNext]_vars

(* ---------------------------- _monitor_backpressure -------------------- *)

\* thresholds of _monitor_backpressure
RedAbove == 100000
OrangeAbove == 50000
YellowAbove == 10000

\* "Determine backpressure level"
backpressure_level(queue_length) ==
    IF queue_length > RedAbove THEN "red"
    ELSE IF queue_length > OrangeAbove THEN "orange"
    ELSE IF queue_length > YellowAbove THEN "yellow"
    ELSE "green"

\* numbers of records published or drained in one step
BulkAmounts == {10000, 40000, 50000, 50001}

\* n records are published on cdc:events (XADD, nothing trimmed)
MonitorPublish(n) ==
    /\ q_len + n <= MaxQueueLen
    /\ q_len' = q_len + n
    /\ UNCHANGED <<mqVars, consumerVars, trace, cdcVars, workerVars,
                   derivedVars, flush_log, faults, priorityVars, q_acked,
                   level, sampled, timedVars, roundVars, appendVars, poolVars, seriesVars, loopVars>>

\* the workers read and acknowledge n records: XACK leaves the entries in
\* the stream
MonitorDrain(n) ==
    /\ q_acked + n <= q_len
    /\ q_acked' = q_acked + n
    /\ UNCHANGED <<mqVars, consumerVars, trace, cdcVars, workerVars,
                   derivedVars, flush_log, faults, priorityVars, q_len,
                   level, sampled, timedVars, roundVars, appendVars, poolVars, seriesVars, loopVars>>

\* one iteration of the monitor loop: get_queue_stats returns the XLEN as
\* queue_length, the level is computed and stored
MonitorTick ==
    /\ sampled' = [queue_length |-> q_len, unprocessed |-> q_len - q_acked,
                   ticked |-> TRUE, failed |-> FALSE, level_before |-> level]
    /\ level' = backpressure_level(q_len)
    /\ UNCHANGED <<mqVars, consumerVars, trace, cdcVars, workerVars,
                   derivedVars, flush_log, faults, priorityVars, q_len,
                   q_acked, timedVars, roundVars, appendVars, poolVars, seriesVars, loopVars>>

MonitorNext ==
    \/ \E n \in BulkAmounts : MonitorPublish(n)
    \/ \E n \in BulkAmounts : MonitorDrain(n)
    \/ MonitorTick

MonitorSpec == Init /\ [][MonitorNext]_vars

\* one iteration of the monitor loop while the stream query fails:
\* get_queue_stats catches the exception and returns queue_length 0 and
\* pending_count 0, from which the level is computed and stored
MonitorTickFails ==
    /\ sampled' = [queue_length |-> 0, unprocessed |-> 0, ticked |-> TRUE,
                   failed |-> TRUE, level_before |-> level]
    /\ level' = backpressure_level(0)
    /\ UNCHANGED <<mqVars, consumerVars, trace, cdcVars, workerVars,
                   derivedVars, flush_log, faults, priorityVars, q_len,
                   q_acked, timedVars, roundVars, appendVars, poolVars,
                   seriesVars, loopVars>>

MonitorFailNext ==
    \/ \E n \in BulkAmounts : MonitorPublish(n)
    \/ \E n \in BulkAmounts : MonitorDrain(n)
    \/ MonitorTick
    \/ MonitorTickFails

MonitorFailSpec == Init /\ [][MonitorFailNext]_vars

(* ---------------------------- FastPathConsumer.run, timed -------------- *)

\* Config.fast_path_batch_timeout_ms and the block argument of XREADGROUP
FlushTimeoutMs == 100
BlockMs == 1000

\* the other variables of the model, which the timed run leaves alone
untimedVarsNoRound ==
    <<mqVars, consumerVars, trace, cdcVars, workerVars, derivedVars,
      flush_log, faults, priorityVars, monitorVars>>
untimedVars == <<untimedVarsNoRound, roundVars, appendVars, poolVars, seriesVars, loopVars>>

Max(a, b) == IF a >= b THEN a ELSE b

\* "for message_id, fields in message_list" on k entries read at time now:
\* <<batch, last_flush, max_wait>> after the loop; a batch that reaches
\* batch_size is flushed and last_flush is set
RECURSIVE timed_for(_, _, _, _, _)
timed_for(k, b, lf, mw, now) ==
    IF k = 0 THEN <<b, lf, mw>>
    ELSE LET b2 == Append(b, now)
         IN  IF Len(b2) >= BatchSize
             THEN timed_for(k - 1, <<>>, now, Max(mw, now - b2[1]), now)
             ELSE timed_for(k - 1, b2, lf, mw, now)

\* "if batch and (now - last_flush) >= self.batch_timeout": flush
timeout_flush(b, lf, mw, now) ==
    IF b /= <<>> /\ (now - lf) >= FlushTimeoutMs
    THEN <<(<<>>), now, Max(mw, now - b[1])>>
    ELSE <<b, lf, mw>>

\* a producer XADDs an entry
TimedArrive ==
    /\ t_arrived < MaxStream
    /\ t_arrived' = t_arrived + 1
    /\ t_unread' = t_unread + 1
    /\ UNCHANGED <<untimedVars, clk, last_flush, blocked, t_batch, max_wait>>

\* XREADGROUP returns the unread entries at once; the for loop and the
\* timeout check after it run
TimedRead ==
    /\ t_unread > 0
    /\ LET k == Min(BatchSize, t_unread)
           r == timed_for(k, t_batch, last_flush, max_wait, clk)
           f == timeout_flush(r[1], r[2], r[3], clk)
       IN  /\ t_unread' = t_unread - k
           /\ t_batch' = f[1] /\ last_flush' = f[2] /\ max_wait' = f[3]
    /\ blocked' = 0
    /\ UNCHANGED <<untimedVars, clk, t_arrived>>

\* no entry is on the stream: the XREADGROUP keeps blocking while time passes
TimedWait ==
    /\ t_unread = 0 /\ blocked < BlockMs
    /\ clk + FlushTimeoutMs <= MaxClock
    /\ clk' = clk + FlushTimeoutMs
    /\ blocked' = blocked + FlushTimeoutMs
    /\ UNCHANGED <<untimedVars, last_flush, t_unread, t_arrived, t_batch,
                   max_wait>>

\* the XREADGROUP returns nothing after block ms: "if not messages"
TimedReadEmpty ==
    /\ t_unread = 0 /\ blocked >= BlockMs
    /\ LET f == timeout_flush(t_batch, last_flush, max_wait, clk)
       IN  t_batch' = f[1] /\ last_flush' = f[2] /\ max_wait' = f[3]
    /\ blocked' = 0
    /\ UNCHANGED <<untimedVars, clk, t_unread, t_arrived>>

TimedNext ==
    \/ TimedArrive
    \/ TimedRead
    \/ TimedWait
    \/ TimedReadEmpty

TimedSpec == Init /\ [][TimedNext]_vars

(* ---------------------------- specification ---------------------------- *)

ConsumerStep ==
    \/ ConsumerReadMessages
    \/ ConsumerReadEmpty
    \/ ConsumerParse
    \/ FlushWrite
    \/ FlushPublish
    \/ FlushAck
    \/ ConsumerExit
    \/ ConsumerRestart

WorkerStep(w) ==
    \/ WorkerSkip(w)
    \/ WorkerProcess(w)

\* the whole pipeline of run_server.py: producers, the consumer task and
\* the worker tasks in one event loop
Next ==
    \/ ProduceEvent
    \/ PublishExternal
    \/ ConsumerReadMessages
    \/ ConsumerReadEmpty
    \/ ConsumerParse
    \/ FlushWrite
    \/ FlushPublish
    \/ FlushAck
    \/ \E w \in Workers : WorkerSkip(w)
    \/ \E w \in Workers : WorkerProcess(w)
    \/ \E w \in Workers : WorkerProcessRaises(w)

Spec == Init /\ [][Next]_vars

\* the pipeline without failures on tool, edit, response, stop and
\* session-start events
ProduceDerive == \E entry \in DeriveEntries : Added(entry)

DeriveNext ==
    \/ ProduceDerive
    \/ ConsumerReadMessages
    \/ ConsumerReadEmpty
    \/ ConsumerParse
    \/ FlushWrite
    \/ FlushPublish
    \/ FlushAck
    \/ \E w \in Workers : WorkerSkip(w)
    \/ \E w \in Workers : WorkerProcess(w)

DeriveSpec == Init /\ [][DeriveNext]_vars

\* the loops keep running: every enabled step of the consumer task and of
\* each worker task is eventually taken; faults are not forced
FairSpec ==
    /\ Spec
    /\ WF_vars(ConsumerStep)
    /\ \A w \in Workers : WF_vars(WorkerStep(w))

\* the fast path alone (FastPathConsumer.run with its writer and publisher),
\* with failing writes and publishes, stop(), process kills and restarts
FastNext ==
    \/ Produce
    \/ ConsumerReadMessages
    \/ ConsumerReadEmpty
    \/ ConsumerParse
    \/ FlushWrite
    \/ FlushWriteRaises
    \/ FlushPublish
    \/ FlushPublishLossy
    \/ FlushAck
    \/ ConsumerStop
    \/ ConsumerExit
    \/ ConsumerKill
    \/ ConsumerRestart

FastSpec == Init /\ [][FastNext]_vars

\* the consumer without failures on a stream that carries well-formed
\* entries, unparseable ones and JSON values that are not objects
ProduceMixed == \E entry \in ProducerEntries \cup {ListEntry} : Added(entry)

MixedNext ==
    \/ ProduceMixed
    \/ ConsumerReadMessages
    \/ ConsumerReadEmpty
    \/ ConsumerParse
    \/ FlushWrite
    \/ FlushPublish
    \/ FlushAck

MixedSpec == Init /\ [][MixedNext]_vars

MixedFairSpec == MixedSpec /\ WF_vars(ConsumerStep)

\* the consumer task keeps running and a stopped or killed consumer is
\* started again; failures are not forced
FastFairSpec ==
    /\ FastSpec
    /\ WF_vars(ConsumerStep)

(* ---------------------------- raw_traces alone ------------------------- *)

\* the values json.loads gives a field of an event read from the stream
JsonValues ==
    {PyStr("a"), PyStr("1"), PyInt("1"), PyBool("True"), PyNone,
     PyList(<<>>), PyList(<<PyInt("1"), PyStr("a")>>), PyList(<<PyNone>>)}

\* the events the writer hands to batch_insert: parsed by run(), stamped
\* with _ingested_at by run() and holding an event_id after write_batch
StampedEvent(id) ==
    [k \in {"event_id", "_ingested_at"} |->
        IF k = "event_id" THEN PyStr(id) ELSE PyStr("2024-01-01T00:00:00.000001")]
RoundEvents ==
    {StampedEvent(id) : id \in {"e1", "e2"}}
    \cup {SetItem(StampedEvent(id), "tokens_used", val) :
            id \in {"e1", "e2"}, val \in JsonValues}

\* batch_insert([event]) on the trace storage
RoundInsert(event) ==
    /\ Len(rt_rows) < MaxStream
    /\ rt_rows' = Append(rt_rows, insert_row(rt_rows, event))
    /\ UNCHANGED <<untimedVarsNoRound, timedVars, rt_result, appendVars, poolVars, seriesVars, loopVars>>

\* get_by_sequence(sequence) on a sequence that batch_insert assigned
RoundGet(sequence) ==
    /\ sequence \in DOMAIN rt_rows
    /\ rt_result' = [sequence |-> sequence, event |-> row_event(rt_rows[sequence])]
    /\ UNCHANGED <<untimedVarsNoRound, timedVars, rt_rows, appendVars, poolVars, seriesVars, loopVars>>

RoundNext ==
    \/ \E event \in RoundEvents : RoundInsert(event)
    \/ \E sequence \in 1..MaxStream : RoundGet(sequence)

RoundSpec == Init /\ [][RoundNext]_vars

(* ---------------------------- batch_insert alone ----------------------- *)

\* what a parsed event does to batch_insert: "ok" is inserted;
\* "bad_payload" has a payload that is no dict, so payload.get raises while
\* the rows are built; "null_session" has "session_id": null, which the
\* NOT NULL column rejects when executemany reaches its row
AppendKinds == {"ok", "bad_payload", "null_session"}
AppendBatches ==
    UNION {[1..n -> AppendKinds] : n \in 1..BatchSize}

\* index of the first event of kind k in the batch, 0 when there is none
first_of(kinds, k) ==
    LET S == {i \in DOMAIN kinds : kinds[i] = k}
    IN  IF S = {} THEN 0 ELSE CHOOSE i \in S : \A j \in S : i <= j

\* batch_insert: the for loop builds every row before executemany runs;
\* executemany opens a transaction and inserts row by row until one fails
rows_built(kinds) == first_of(kinds, "bad_payload") = 0
rows_inserted(kinds) ==
    IF ~rows_built(kinds) THEN 0
    ELSE IF first_of(kinds, "null_session") = 0 THEN Len(kinds)
    ELSE first_of(kinds, "null_session") - 1
batch_insert_raises(kinds) == rows_inserted(kinds) < Len(kinds)

\* _flush_batch calls write_batch, which calls batch_insert(events): the
\* rows inserted stay in the connection's transaction until conn.commit(),
\* which only a call that did not raise reaches; _flush_batch's except
\* branch prints and nothing rolls back
AppendBatch(kinds) ==
    /\ Len(ap_attempts) < MaxStream
    /\ ap_attempts' = Append(ap_attempts, kinds)
    /\ IF batch_insert_raises(kinds)
       THEN /\ ap_failed' = ap_failed \cup {Len(ap_attempts')}
            /\ ap_tx' = ap_tx \o
                    [i \in 1..rows_inserted(kinds) |-> <<Len(ap_attempts'), i>>]
            /\ UNCHANGED ap_table
       ELSE /\ ap_table' = ap_table \o ap_tx \o
                    [i \in 1..rows_inserted(kinds) |-> <<Len(ap_attempts'), i>>]
            /\ ap_tx' = <<>>
            /\ UNCHANGED ap_failed
    /\ UNCHANGED <<untimedVarsNoRound, timedVars, roundVars, poolVars, seriesVars, loopVars>>

AppendNext == \E kinds \in AppendBatches : AppendBatch(kinds)

AppendSpec == Init /\ [][AppendNext]_vars

(* ---------------------------- WorkerPoolManager tasks ------------------ *)

\* records put on cdc:events while the pool is observed
MaxPoolStream == 2
\* times the server is started again
MaxRestarts == 1

\* what json.loads(fields["event"]) gives: a dict, or a value without .get
PoolRecordKinds == {"object", "not_object"}

everythingButPool == <<untimedVarsNoRound, timedVars, roundVars, appendVars, seriesVars, loopVars>>

\* XADD to cdc:events
PoolPublish(kind) ==
    /\ Len(pool_stream) < MaxPoolStream
    /\ pool_stream' = Append(pool_stream, kind)
    /\ UNCHANGED <<pool_running, pool_waited, pool_last_id, pool_pel,
                   pool_done, w_pc, w_msg, late_readers, pool_crashed,
                   pool_starts, everythingButPool>>

\* "while self.running" found true: the task enters "async for ... consume"
WorkerLoop(w) ==
    /\ w_pc[w] = "test"
    /\ pool_running
    /\ w_pc' = [w_pc EXCEPT ![w] = "read"]
    /\ UNCHANGED <<pool_running, pool_waited, pool_stream, pool_last_id,
                   pool_pel, pool_done, w_msg, late_readers, pool_crashed,
                   pool_starts, everythingButPool>>

\* "while self.running" found false: the task prints its totals and ends
WorkerExit(w) ==
    /\ w_pc[w] = "test"
    /\ ~pool_running
    /\ w_pc' = [w_pc EXCEPT ![w] = "ended"]
    /\ UNCHANGED <<pool_running, pool_waited, pool_stream, pool_last_id,
                   pool_pel, pool_done, w_msg, late_readers, pool_crashed,
                   pool_starts, everythingButPool>>

\* the workers whose XREADGROUP was issued after stop()
readers_after(w) ==
    IF pool_running THEN late_readers ELSE late_readers \cup {w}

\* consume: XREADGROUP ">" count=1 hands out the next never-delivered record
\* and the generator yields it
WorkerRead(w) ==
    /\ w_pc[w] = "read"
    /\ pool_last_id < Len(pool_stream)
    /\ pool_last_id' = pool_last_id + 1
    /\ pool_pel' = pool_pel \cup {pool_last_id + 1}
    /\ w_msg' = [w_msg EXCEPT ![w] = pool_last_id + 1]
    /\ w_pc' = [w_pc EXCEPT ![w] = "body"]
    /\ late_readers' = readers_after(w)
    /\ UNCHANGED <<pool_running, pool_waited, pool_stream, pool_done,
                   pool_crashed, pool_starts, everythingButPool>>

\* consume: XREADGROUP returns nothing after the block time, "if not
\* messages: continue" inside "while True"
WorkerReadEmpty(w) ==
    /\ w_pc[w] = "read"
    /\ pool_last_id = Len(pool_stream)
    /\ late_readers' = readers_after(w)
    /\ UNCHANGED <<pool_running, pool_waited, pool_stream, pool_last_id,
                   pool_pel, pool_done, w_pc, w_msg, pool_crashed,
                   pool_starts, everythingButPool>>

\* the loop body on a dict: skipped, processed, or process raised; each of
\* the three ends with acknowledge and the next iteration of "async for"
WorkerBody(w) ==
    /\ w_pc[w] = "body"
    /\ pool_stream[w_msg[w]] = "object"
    /\ pool_done' = pool_done \cup {w_msg[w]}
    /\ pool_pel' = pool_pel \ {w_msg[w]}
    /\ w_msg' = [w_msg EXCEPT ![w] = 0]
    /\ w_pc' = [w_pc EXCEPT ![w] = "read"]
    /\ UNCHANGED <<pool_running, pool_waited, pool_stream, pool_last_id,
                   late_readers, pool_crashed, pool_starts, everythingButPool>>

\* the loop body on a value without .get: cdc_event.get raises outside the
\* inner try, the outer except logs, sleeps 1 s and goes back to the test
WorkerBodyRaises(w) ==
    /\ w_pc[w] = "body"
    /\ pool_stream[w_msg[w]] = "not_object"
    /\ w_msg' = [w_msg EXCEPT ![w] = 0]
    /\ w_pc' = [w_pc EXCEPT ![w] = "test"]
    /\ UNCHANGED <<pool_running, pool_waited, pool_stream, pool_last_id,
                   pool_pel, pool_done, late_readers, pool_crashed,
                   pool_starts, everythingButPool>>

\* stop(): running = False and the monitor task is cancelled
PoolStop ==
    /\ pool_running
    /\ pool_running' = FALSE
    /\ UNCHANGED <<pool_waited, pool_stream, pool_last_id, pool_pel,
                   pool_done, w_pc, w_msg, late_readers, pool_crashed,
                   pool_starts, everythingButPool>>

\* wait_for_completion(): awaits the monitor task only, which stop() has
\* cancelled
PoolWait ==
    /\ ~pool_running
    /\ ~pool_waited
    /\ pool_waited' = TRUE
    /\ UNCHANGED <<pool_running, pool_stream, pool_last_id, pool_pel,
                   pool_done, w_pc, w_msg, late_readers, pool_crashed,
                   pool_starts, everythingButPool>>

\* the tasks that have not returned
Alive == {w \in Workers : w_pc[w] \notin {"ended", "dead"}}

\* the server process is gone (killed, or main returned and asyncio.run
\* cancelled what was left): every task still alive dies where it is
PoolKill ==
    /\ pool_starts < MaxRestarts
    /\ Alive /= {}
    /\ pool_crashed' = pool_crashed \cup {w_msg[w] : w \in {v \in Alive : w_msg[v] /= 0}}
    /\ w_pc' = [w \in Workers |-> IF w \in Alive THEN "dead" ELSE w_pc[w]]
    /\ w_msg' = [w \in Workers |-> 0]
    /\ UNCHANGED <<pool_running, pool_waited, pool_stream, pool_last_id,
                   pool_pel, pool_done, late_readers, pool_starts,
                   everythingButPool>>

\* the server is started again: start() creates the same workers under the
\* same consumer names in the same group and sets running
PoolStart ==
    /\ Alive = {}
    /\ pool_starts < MaxRestarts
    /\ pool_starts' = pool_starts + 1
    /\ w_pc' = [w \in Workers |-> "test"]
    /\ pool_running' = TRUE
    /\ pool_waited' = FALSE
    /\ UNCHANGED <<pool_stream, pool_last_id, pool_pel, pool_done, w_msg,
                   late_readers, pool_crashed, everythingButPool>>

PoolWorkerStep(w) ==
    \/ WorkerLoop(w)
    \/ WorkerExit(w)
    \/ WorkerRead(w)
    \/ WorkerReadEmpty(w)
    \/ WorkerBody(w)
    \/ WorkerBodyRaises(w)

PoolNext ==
    \/ \E kind \in PoolRecordKinds : PoolPublish(kind)
    \/ \E w \in Workers : WorkerLoop(w)
    \/ \E w \in Workers : WorkerExit(w)
    \/ \E w \in Workers : WorkerRead(w)
    \/ \E w \in Workers : WorkerReadEmpty(w)
    \/ \E w \in Workers : WorkerBody(w)
    \/ \E w \in Workers : WorkerBodyRaises(w)
    \/ PoolStop
    \/ PoolWait
    \/ PoolKill
    \/ PoolStart

PoolSpec == Init /\ [][PoolNext]_vars

\* every task that can take a step eventually takes it, and a server that
\* is down is started again (MaxRestarts times); publishing, stop and kills
\* are not forced
PoolFairSpec ==
    /\ PoolSpec
    /\ \A w \in Workers : WF_vars(PoolWorkerStep(w))
    /\ WF_vars(PoolStart)

(* ---------------------------- RedisMetricsStorage fallback ------------- *)

\* "zremrangebyrank(key, 0, -1001)": the ranks kept
ZSetCap == 1000
\* record_metric calls made after the series was filled
MaxRecords == 3

\* the decimal digits of a natural number, as str prints them
RECURSIVE digits(_)
digits(n) == IF n < 10 THEN <<n>> ELSE Append(digits(n \div 10), n % 10)

\* byte order of two texts
RECURSIVE text_less(_, _)
text_less(a, b) ==
    IF a = <<>> THEN b /= <<>>
    ELSE IF b = <<>> THEN FALSE
    ELSE IF Head(a) /= Head(b) THEN Head(a) < Head(b)
    ELSE text_less(Tail(a), Tail(b))

\* str(value): the member of the sorted set
py_str(value) == [text |-> digits(value)]

\* float(member): the number the text spells
RECURSIVE digits_value(_)
digits_value(d) ==
    IF d = <<>> THEN 0 ELSE 10 * digits_value(SubSeq(d, 1, Len(d) - 1)) + d[Len(d)]

py_float(member) == digits_value(member.text)

\* the order of a sorted set: by score, equal scores by member text
zset_before(a, b) ==
    \/ a.score < b.score
    \/ a.score = b.score /\ text_less(a.member.text, b.member.text)

\* ZADD key {member: score}: a member the set holds already is moved to the
\* new score, a new member is put at its rank
zadd(z, member, score) ==
    LET entry == [member |-> member, score |-> score]
        others == SelectSeq(z, LAMBDA e : e.member /= member)
        rank == Cardinality({i \in DOMAIN others : zset_before(others[i], entry)})
    IN  SubSeq(others, 1, rank) \o <<entry>> \o SubSeq(others, rank + 1, Len(others))

\* ZREMRANGEBYRANK key 0 -(ZSetCap + 1): all but the ZSetCap highest ranks go
zremrangebyrank(z) ==
    IF Len(z) <= ZSetCap THEN z ELSE SubSeq(z, Len(z) - ZSetCap + 1, Len(z))

\* record_metric without the time-series module: TS.ADD raises, then ZADD
\* of str(value) with score ts, then the trim
record_metric_fallback(z, value, ts) ==
    zremrangebyrank(zadd(z, py_str(value), ts))

\* get_metric_range over the whole range without the time-series module:
\* ZRANGEBYSCORE 0 inf WITHSCORES as a list of (score, float(value))
get_metric_range(z) ==
    [i \in DOMAIN z |-> <<z[i].score, py_float(z[i].member)>>]

\* a series after n calls record_metric(value i, timestamp i)
filled(n) == [i \in 1..n |-> [member |-> py_str(i), score |-> i]]

\* the series is empty, or one point short of the cap
SeriesInit ==
    /\ PipelineInit
    /\ p_event = S1Event /\ p_result = 0
    /\ \E n \in {0, ZSetCap - 1} :
           /\ zset = filled(n)
           /\ z_log = [i \in 1..n |-> <<i, i>>]

\* the timestamps and values of the calls that follow n calls
LaterStamps(n) == (n + 1)..(n + MaxRecords)
LaterValues(n) == (n + 1)..(n + MaxRecords - 1)

RecordMetric ==
    \E first \in {0, ZSetCap - 1} :
        /\ Len(z_log) >= first
        /\ Len(z_log) < first + MaxRecords
        /\ first = 0 => Len(z_log) < ZSetCap - 1
        /\ \E ts \in LaterStamps(first), value \in LaterValues(first) :
               /\ zset' = record_metric_fallback(zset, value, ts)
               /\ z_log' = Append(z_log, <<ts, value>>)
        /\ UNCHANGED <<untimedVarsNoRound, timedVars, roundVars, appendVars,
                       poolVars, loopVars>>

SeriesNext == RecordMetric

SeriesSpec == SeriesInit /\ [][SeriesNext]_vars

(* ---------------------------- one cooperative event loop -------------- *)

\* CDC records the consumer task publishes
MaxLoopCdc == 2
\* exceptions caught per task
MaxTaskErrors == 1

everythingButLoop ==
    <<untimedVarsNoRound, timedVars, roundVars, appendVars, poolVars, seriesVars>>

\* the event loop takes the next ready task
LoopDispatch ==
    /\ loop_current = NoTask
    /\ loop_ready /= <<>>
    /\ loop_current' = Head(loop_ready)
    /\ loop_ready' = Tail(loop_ready)
    /\ UNCHANGED <<loop_sleeping, loop_cdc, loop_read, loop_raised,
                   everythingButLoop>>

\* a timer of asyncio.sleep is due: the loop, when it is between tasks, puts
\* the sleeper on the ready queue
LoopWake(t) ==
    /\ loop_current = NoTask
    /\ t \in loop_sleeping
    /\ loop_sleeping' = loop_sleeping \ {t}
    /\ loop_ready' = Append(loop_ready, t)
    /\ UNCHANGED <<loop_current, loop_cdc, loop_read, loop_raised,
                   everythingButLoop>>

\* "await asyncio.sleep(...)": the only await of these tasks that suspends
suspend(t) ==
    /\ loop_current' = NoTask
    /\ loop_sleeping' = loop_sleeping \cup {t}

\* one iteration of FastPathConsumer.run without an exception: the blocking
\* redis call, parsing, and "await self._flush_batch", whose body never
\* suspends; the task keeps the loop
LoopConsumerIterate(arrived) ==
    /\ loop_current = ConsumerTask
    /\ loop_cdc' = IF arrived /\ loop_cdc < MaxLoopCdc THEN loop_cdc + 1 ELSE loop_cdc
    /\ UNCHANGED <<loop_current, loop_ready, loop_sleeping, loop_read, loop_raised,
                   everythingButLoop>>

\* an iteration of a loop of task t raises: "except Exception" prints and
\* awaits asyncio.sleep(1)
LoopTaskRaises(t) ==
    /\ loop_current = t
    /\ t /= MonitorTask
    /\ loop_raised[t] < MaxTaskErrors
    /\ loop_raised' = [loop_raised EXCEPT ![t] = @ + 1]
    /\ suspend(t)
    /\ UNCHANGED <<loop_ready, loop_cdc, loop_read,
                   everythingButLoop>>

\* one round of CDCWorkQueue.consume under _run_worker without an
\* exception: the blocking xreadgroup, the yield to "async for", process
\* and acknowledge, none of which suspends; the task keeps the loop
LoopWorkerIterate(w) ==
    /\ loop_current = w
    /\ loop_read' = IF loop_read < loop_cdc THEN loop_read + 1 ELSE loop_read
    /\ UNCHANGED <<loop_current, loop_ready, loop_sleeping, loop_cdc, loop_raised,
                   everythingButLoop>>

\* one round of _monitor_backpressure: get_queue_stats, the level, then
\* "await asyncio.sleep(5)"
LoopMonitorRound ==
    /\ loop_current = MonitorTask
    /\ suspend(MonitorTask)
    /\ UNCHANGED <<loop_ready, loop_cdc, loop_read, loop_raised,
                   everythingButLoop>>

LoopStep ==
    \/ LoopDispatch
    \/ \E t \in Tasks : LoopWake(t)
    \/ \E arrived \in BOOLEAN : LoopConsumerIterate(arrived)
    \/ \E w \in Workers : LoopWorkerIterate(w)
    \/ LoopMonitorRound

LoopNext ==
    \/ LoopDispatch
    \/ \E t \in Tasks : LoopWake(t)
    \/ \E arrived \in BOOLEAN : LoopConsumerIterate(arrived)
    \/ \E w \in Workers : LoopWorkerIterate(w)
    \/ LoopMonitorRound
    \/ \E t \in Tasks : LoopTaskRaises(t)

LoopSpec == Init /\ [][LoopNext]_vars

\* the event loop and the task it runs keep taking steps; exceptions are
\* not forced
LoopFairSpec == LoopSpec /\ WF_vars(LoopStep)

(* ---------------------------- calculate_priority alone ----------------- *)

PriorityInit ==
    /\ PipelineInit
    /\ p_event \in PriorityInputs
    /\ p_result = 0
    /\ SeriesEmpty

ApplyPriority ==
    /\ p_result = 0
    /\ p_result' = calculate_priority(p_event)
    /\ UNCHANGED <<mqVars, consumerVars, trace, cdcVars, workerVars,
                   derivedVars, flush_log, faults, p_event, monitorVars, timedVars, roundVars, appendVars, poolVars, seriesVars, loopVars>>

PriorityNext == ApplyPriority

PrioritySpec == PriorityInit /\ [][PriorityNext]_vars

(* ======================================================================= *)
(* Properties                                                              *)
(* ======================================================================= *)

\* ids of the ingest-stream entries whose event has a committed row
WrittenIds == {trace[i].mid : i \in DOMAIN trace}

\* number of occurrences of x in the sequence s
Count(s, x) == Cardinality({i \in DOMAIN s : s[i] = x})

\* C1: an ingest-stream entry is acknowledged only after a write_batch that
\* contained its event has committed; after a write_batch that raised, none
\* of the entries of that batch is acknowledged.
C1_AckOnlyAfterWrite ==
    \A id \in mq_acked : id \in WrittenIds

\* C1 witness: one batch was written and acknowledged, another one was
\* dropped by a failing write_batch and its entry is still pending
C1_Witness ==
    /\ mq_acked /= {}
    /\ faults["write"] > 0 /\ faults["kill"] = 0 /\ faults["stop"] = 0
    /\ c_pc = "read" /\ batch = <<>>
    /\ \E id \in mq_pel : mq[id].json /\ id \notin WrittenIds

\* the rule of the specification, stated without the code's should_process
ClassThreshold(class) == IF class = "metrics" THEN 3 ELSE 4
RecordPriority(rec) == IF rec.priority \in 1..5 THEN rec.priority ELSE 5

TypeClassPriority(t) ==
    CASE t \in {"user_prompt", "acceptance_decision"} -> 1
      [] t \in {"tool_use", "completion"} -> 2
      [] t \in {"performance", "latency"} -> 3
      [] t \in {"session_start", "session_end"} -> 4
      [] OTHER -> 5

HookClassPriority(h) ==
    CASE h \in {"UserPromptSubmit", "BeforeSubmitPrompt"} -> 1
      [] h \in {"PostToolUse", "AfterMCPExecution"} -> 2
      [] h \in {"SessionStart", "Stop"} -> 4
      [] OTHER -> 5

TurnsOf(cid) == {i \in DOMAIN turns : turns[i].conversation_id = cid}

\* C10: in every state the turn numbers of each conversation are exactly
\* 1..interaction_count, without duplicates.
C10_TurnDensity ==
    \A cid \in DOMAIN conversations :
        /\ {turns[i].turn_number : i \in TurnsOf(cid)}
               = 1..conversations[cid].interaction_count
        /\ Cardinality(TurnsOf(cid)) = conversations[cid].interaction_count

\* C10 witness: two different conversation workers each added a turn to the
\* same conversation
C10_Witness ==
    \E i, j \in DOMAIN turns :
        /\ turns[i].conversation_id = turns[j].conversation_id
        /\ turns[i].worker /= turns[j].worker
        /\ conversations[turns[i].conversation_id].interaction_count = 2

\* C2: every well-formed entry that was delivered to the consumer and is
\* not acknowledged is eventually appended to the trace store and
\* acknowledged.
C2_PendingEventuallyPersisted ==
    \A id \in 1..MaxStream :
        [](id \in mq_pel /\ mq[id].json
             => <>(id \in mq_acked /\ id \in WrittenIds))

MaxCdc == MaxStream + MaxFaults

\* C3: every CDC record with priority <= 3 is eventually processed by a
\* metrics worker and every CDC record with priority <= 4 by a conversation
\* worker.
C3_EveryClassProcesses ==
    \A id \in 1..MaxCdc :
        /\ [](id \in DOMAIN cdc /\ RecordPriority(cdc[id]) <= 3
                => <>(<<"metrics", id>> \in invoked))
        /\ [](id \in DOMAIN cdc /\ RecordPriority(cdc[id]) <= 4
                => <>(<<"conversation", id>> \in invoked))

\* C4: however often an event is persisted and processed, the derived store
\* holds at most one turn for its event_id, one conversation per session and
\* an interaction_count that counts each event_id once.
C4_IdempotentDerivation ==
    /\ \A i, j \in DOMAIN turns :
         turns[i].event_id = turns[j].event_id => i = j
    /\ \A cid \in DOMAIN conversations :
         conversations[cid].interaction_count
             = Cardinality({turns[i].event_id : i \in TurnsOf(cid)})

\* nothing is in flight: every entry was read, the consumer holds no batch,
\* every CDC record was read and acknowledged
Quiescent ==
    /\ c_pc = "read" /\ running
    /\ mq_last_id = Len(mq)
    /\ batch = <<>>
    /\ cdc_last_id = Len(cdc)

\* C5: when the S1 event is the only entry put on the ingest stream and the
\* pipeline is quiescent after a run without failures, the trace store holds
\* one row for it and the derived store holds one conversation for
\* ("s", "claude_code") with interaction_count 1 and one user_prompt turn
\* numbered 1.
C5_HappyPathS1 ==
    (/\ mq = <<JsonEntry(S1Event)>>
     /\ Quiescent
     /\ FaultCount = 0)
    => /\ Len(trace) = 1 /\ trace[1].event = S1Event
       /\ Len(conversations) = 1
       /\ conversations[1].external_session_id = "s"
       /\ conversations[1].platform = "claude_code"
       /\ conversations[1].interaction_count = 1
       /\ Len(turns) = 1
       /\ turns[1].turn_type = "user_prompt"
       /\ turns[1].turn_number = 1

\* sequence of the row batch_insert created for position i of the batch
InsertedSequence(i) == Len(trace) - Len(batch) + i

\* C8: after write_batch the sequence attached to each event of the batch is
\* the sequence of the row just inserted for it, and the sequences increase
\* strictly in input order.
C8_AppendOrdering ==
    c_pc \in {"publish", "ack"} =>
        /\ \A i \in DOMAIN batch : batch[i].sequence = InsertedSequence(i)
        /\ \A i, j \in DOMAIN batch :
             i < j => batch[i].sequence < batch[j].sequence

\* C9: a flush of N events that lost no publish has published N CDC records
\* whose sequences are the N distinct sequences of the rows it inserted.
C9_AnnouncedOnce ==
    (c_pc = "ack" /\ flush_log.lost = 0) =>
        /\ Len(flush_log.published) = Len(batch)
        /\ \A i, j \in DOMAIN flush_log.published :
             flush_log.published[i].sequence = flush_log.published[j].sequence
                 => i = j
        /\ {flush_log.published[i].sequence : i \in DOMAIN flush_log.published}
               = {InsertedSequence(i) : i \in DOMAIN batch}

\* code changes of conversation cid whose accepted is known / is true
KnownChanges(cid) ==
    {i \in DOMAIN code_changes :
        /\ code_changes[i].conversation_id = cid
        /\ code_changes[i].accepted /= "null"}
AcceptedChanges(cid) ==
    {i \in KnownChanges(cid) : code_changes[i].accepted = "true"}

\* C11: for every conversation with a code change whose accepted is known,
\* acceptance_rate = (changes accepted) / (changes with known accepted).
C11_AcceptanceConsistency ==
    \A cid \in DOMAIN conversations :
        KnownChanges(cid) /= {} =>
            /\ conversations[cid].acceptance_rate /= NullRate
            /\ conversations[cid].acceptance_rate.num * Cardinality(KnownChanges(cid))
                 = Cardinality(AcceptedChanges(cid))
                       * conversations[cid].acceptance_rate.den

\* C12: get_or_create_conversation returns the same id for the same
\* (external_session_id, platform) pair on every call, whichever worker
\* calls, and there is at most one conversation row per pair.
C12_OneConversationPerPair ==
    /\ \A i, j \in DOMAIN conversations :
         (/\ conversations[i].external_session_id = conversations[j].external_session_id
          /\ conversations[i].platform = conversations[j].platform) => i = j
    /\ \A r1, r2 \in returned : r1[2] = r2[2] => r1[3] = r2[3]
    /\ \A r \in returned :
         /\ r[3] \in DOMAIN conversations
         /\ conversations[r[3]].external_session_id = r[2][1]
         /\ conversations[r[3]].platform = r[2][2]

\* C12 witness: two conversation workers called with the same pair, after a
\* call with another pair had created a conversation
C12_Witness ==
    /\ store_calls > 0
    /\ Len(conversations) >= 2
    /\ \E r1, r2 \in returned : r1[2] = r2[2] /\ r1[1] /= r2[1] /\ r1[3] = 2

\* the bands of the specification
Band(n) ==
    IF n >= 100000 THEN "red"
    ELSE IF n >= 50000 THEN "orange"
    ELSE IF n >= 10000 THEN "yellow"
    ELSE "green"

\* C13: after each monitor tick the level is the band of the queue length
\* the tick observed: green below 10,000, yellow for 10,000..49,999, orange
\* for 50,000..99,999, red from 100,000.
C13_LevelIsBand ==
    sampled.ticked => level = Band(sampled.queue_length)

\* C14: a tick that finds 60,000 records published and none read publishes
\* orange; a tick that finds fewer than 10,000 records unprocessed publishes
\* green.
C14_DrainedIsGreen ==
    sampled.ticked =>
        /\ (sampled.queue_length = 60000 /\ sampled.unprocessed = 60000)
              => level = "orange"
        /\ sampled.unprocessed < 10000 => level = "green"

\* C15: no event is in the consumer's batch for more than batch_timeout
\* (100 ms) after it was appended: neither an event still in the batch nor
\* one a flush has written.
C15_FlushBound ==
    /\ max_wait <= FlushTimeoutMs
    /\ t_batch /= <<>> => clk - t_batch[1] <= FlushTimeoutMs

\* C16: when publishes of a flush fail, the rows of the batch stay in the
\* trace store, the other events of the batch are published, and the flush
\* goes on to acknowledge every entry of the batch (unless the process is
\* killed first).
C16_PublishFailureHarmless ==
    flush_log.lost > 0 =>
        /\ flush_log.ids \subseteq WrittenIds
        /\ Len(flush_log.published) + flush_log.lost = Cardinality(flush_log.ids)
        /\ c_pc = "ack" => Range(message_ids) = flush_log.ids
        /\ (c_pc /= "ack" /\ faults["kill"] = 0) => flush_log.ids \subseteq mq_acked

\* C16 witness: a flush of two events lost one publish, published the other
\* and has acknowledged both entries
C16_Witness ==
    /\ flush_log.lost = 1 /\ Len(flush_log.published) = 1
    /\ c_pc = "read"
    /\ flush_log.ids \subseteq mq_acked

\* C17: an entry whose data json.loads rejects is never written to the
\* trace store, and once delivered it is eventually acknowledged and gone
\* from the pending-entries list.
C17_MalformedAcknowledged ==
    /\ [](\A id \in WrittenIds : mq[id].json)
    /\ \A id \in 1..MaxStream :
         []((id <= mq_last_id /\ ~mq[id].json)
              => <>(id \in mq_acked /\ id \notin mq_pel))

\* a well-formed entry that was delivered and that the consumer no longer
\* holds, although no row was written for it: its flush failed
FlushFailedFor(id) ==
    /\ id \in mq_pel /\ mq[id].json
    /\ id \notin WrittenIds
    /\ id \notin Range(messages) /\ id \notin Range(message_ids)
    /\ faults["write"] > 0 /\ faults["kill"] = 0

\* C18: an entry whose flush failed does not stay pending forever: it is
\* eventually acknowledged, after its event was written or after the entry
\* was moved to the dead-letter stream.
C18_DeadLetter ==
    \A id \in 1..MaxStream :
        [](FlushFailedFor(id)
             => <>(/\ id \in mq_acked /\ id \notin mq_pel
                   /\ (id \in WrittenIds \/ id \in dlq)))

\* C19: a record on which worker.process raised is acknowledged once and
\* is not delivered again, each failure is counted by the worker it
\* happened in, and a worker that counted a failure can still take the
\* next record.
C19_PoisonAcknowledged ==
    /\ \A p \in poisoned :
         /\ p[2] <= cdc_last_id
         /\ Count(acklog, <<worker_type(p[1]), p[2]>>) = 1
    /\ \A w \in Workers :
         /\ failed[w] = Cardinality({p \in poisoned : p[1] = w})
         /\ (failed[w] > 0 /\ cdc_last_id < Len(cdc)) => ENABLED WorkerStep(w)

\* C19 witness: process raised on record 1 in a conversation worker, and
\* the same worker has read record 2 and added a turn for it
C19_Witness ==
    \E w \in ConversationWorkers :
        /\ poisoned = {<<w, 1>>} /\ failed[w] = 1
        /\ cdc_last_id = 2
        /\ \E i \in DOMAIN turns : turns[i].worker = w

\* the ingestion metadata get_by_sequence attaches
IngestionMetadata == {"_sequence", "_ingested_at"}

\* C20: the event get_by_sequence returns for a sequence has the fields of
\* the event batch_insert was given for that row, each with the value it
\* was given, apart from _sequence and _ingested_at.
C20_RoundTrip ==
    rt_result.sequence # 0 =>
        LET appended == rt_rows[rt_result.sequence].appended
            event == rt_result.event
        IN  /\ DOMAIN event \ IngestionMetadata = DOMAIN appended \ IngestionMetadata
            /\ \A k \in DOMAIN appended \ IngestionMetadata : event[k] = appended[k]

\* C20 witness: the second row written held a list of an integer and a
\* text, and get_by_sequence(2) returned it with another _ingested_at
C20_Witness ==
    /\ rt_result.sequence = 2
    /\ "tokens_used" \in DOMAIN rt_rows[2].appended
    /\ rt_rows[2].appended["tokens_used"] = PyList(<<PyInt("1"), PyStr("a")>>)
    /\ rt_result.event["tokens_used"] = PyList(<<PyInt("1"), PyStr("a")>>)
    /\ rt_result.event["_sequence"] = PyInt("2")
    /\ rt_result.event["_ingested_at"] # rt_rows[2].appended["_ingested_at"]

\* C21: no row of a batch_insert call that raised is in the trace store
\* that readers see, at any later time.
C21_BatchAllOrNothing ==
    \A i \in DOMAIN ap_table : ap_table[i][1] \notin ap_failed

\* C23: once the consumer loop has exited after stop(), with no failure and
\* no kill, every well-formed entry that had been read is written to the
\* trace store and acknowledged.
C23_StopFlushesBatch ==
    (/\ c_pc = "dead" /\ faults["stop"] > 0
     /\ faults["kill"] = 0 /\ faults["write"] = 0 /\ faults["publish"] = 0)
    => \A id \in 1..mq_last_id :
           mq[id].json => id \in WrittenIds /\ id \in mq_acked

\* C27: the CDC records of a flush that lost no publish are those of the
\* batch's events in batch order, and a record published earlier carries a
\* smaller sequence than one published later.
C27_PublishOrder ==
    (c_pc = "ack" /\ flush_log.lost = 0) =>
        /\ Len(flush_log.published) = Len(batch)
        /\ \A i \in DOMAIN flush_log.published :
             flush_log.published[i].event_id = batch[i].event.event_id
        /\ \A i, j \in DOMAIN flush_log.published :
             i < j => flush_log.published[i].sequence
                          < flush_log.published[j].sequence

\* C22: when the S3 tool_use event and then the S3 AfterFileEdit event were
\* put on the ingest stream and the pipeline is quiescent, the conversation
\* of ("s", "claude_code") has total_changes 2 and acceptance_rate 1/2 and
\* the series metric:tools:Edit:latency holds the sample 250.
C22_ScenarioS3 ==
    (/\ mq = <<JsonEntry(S3ToolEvent), JsonEntry(S3EditEvent)>>
     /\ Quiescent)
    => /\ \E cid \in DOMAIN conversations :
            /\ conversations[cid].external_session_id = "s"
            /\ conversations[cid].platform = "claude_code"
            /\ conversations[cid].total_changes = 2
            /\ conversations[cid].acceptance_rate.den /= 0
            /\ 2 * conversations[cid].acceptance_rate.num
                   = conversations[cid].acceptance_rate.den
       /\ <<metric_key("tools:Edit", "latency"), 250>> \in metrics.samples

\* the one entry on the ingest stream is event and the pipeline is quiescent
FlowedAlone(event) == mq = <<JsonEntry(event)>> /\ Quiescent

\* C28: when an assistant-response or stop event (event_type
\* assistant_response, hook Stop, hook AfterAgentResponse) is the only entry
\* and the pipeline is quiescent, the derived store holds exactly one turn
\* for it, of type assistant_response.
C28_AssistantResponseTurn ==
    \A event \in {AssistantResponseEvent, StopHookEvent,
                  AfterAgentResponseHookEvent} :
        FlowedAlone(event) =>
            /\ Len(turns) = 1
            /\ turns[1].turn_type = "assistant_response"
            /\ turns[1].event_id = event.event_id

\* C29: when a session-start event (event_type session_start or hook
\* SessionStart) is the only entry and the pipeline is quiescent, a metrics
\* worker has processed its CDC record and the counter
\* metric:realtime:active_sessions is 1.
C29_SessionStartCounted ==
    \A event \in {SessionStartTypeEvent, SessionStartHookEvent} :
        FlowedAlone(event) =>
            /\ <<"metrics", 1>> \in invoked
            /\ counter_value(metrics, metric_key("realtime", "active_sessions")) = 1

\* C30: when the PostToolUse event of the Edit tool with a known acceptance
\* is the only entry and a conversation worker has processed its CDC
\* record, the derived store holds one tool_use turn and one code change
\* for its conversation.
C30_PostToolUseEdit ==
    (/\ mq = <<JsonEntry(PostToolUseEditEvent)>>
     /\ <<"conversation", 1>> \in invoked)
    => /\ Len(turns) = 1 /\ turns[1].turn_type = "tool_use"
       /\ Len(code_changes) = 1
       /\ code_changes[1].conversation_id = turns[1].conversation_id

\* C25: a record whose fetch found no row is acknowledged only after a
\* second fetch of its sequence has found no row either.
C25_MissingRetriedOnce ==
    \A i \in DOMAIN missed :
        Count(acklog, missed[i]) > 0 => Count(missed, missed[i]) = 2

\* C24: once wait_for_completion has returned every worker task has ended,
\* and no worker issues a read on the CDC stream after stop().
C24_ShutdownEndsWorkers ==
    /\ pool_waited => \A w \in Workers : w_pc[w] = "ended"
    /\ late_readers = {}

\* C26: a well-formed record that was in flight in a worker when the worker
\* died is eventually processed by a worker, unless the pool is stopped
\* first.
C26_CrashedRecordRedelivered ==
    \A id \in 1..MaxPoolStream :
        [](id \in pool_crashed /\ pool_stream[id] = "object"
             => <>(id \in pool_done \/ ~pool_running))

\* the timestamps of the calls so far differ pairwise
DistinctStamps ==
    \A i, j \in DOMAIN z_log : i /= j => z_log[i][1] /= z_log[j][1]

\* C31: after k <= 1000 record_metric calls with distinct timestamps the
\* whole-range read of the fallback series holds k pairs.
C31_EveryCallAppends ==
    (DistinctStamps /\ Len(z_log) <= ZSetCap)
        => Len(get_metric_range(zset)) = Len(z_log)

\* C32: the fallback series never holds more than 1000 points, and no
\* recorded point that is missing from it has a larger timestamp than a
\* point it holds.
C32_BoundedLatest ==
    LET points == Range(get_metric_range(zset))
        missing == Range(z_log) \ points
    IN  /\ Len(zset) <= ZSetCap
        /\ \A q \in missing : \A p \in points : q[1] <= p[1]

\* C33: every event the conversation worker's dispatcher would turn into a
\* turn or a code change gets a priority <= 4 from calculate_priority.
C33_DerivableWithinConversationClass ==
    (p_result /= 0 /\ dispatch(p_event) /= "") => p_result <= 4

\* C34: while the consumer task has caught no exception, every published
\* CDC record is eventually read by a worker task.
C34_WorkersKeepRunning ==
    \A n \in 1..MaxLoopCdc :
        [](loop_cdc >= n => <>(loop_read >= n \/ loop_raised[ConsumerTask] > 0))

\* C35: every well-formed entry of a group-read is eventually appended to
\* the trace store and acknowledged, whatever the other entries of the read
\* contain.
C35_BadEntryLeavesNeighbours ==
    \A id \in 1..MaxStream :
        [](id \in mq_pel /\ mq[id].json /\ mq[id].object
             => <>(id \in mq_acked /\ id \in WrittenIds))

\* C36: the sequence of every CDC record on the stream is the sequence of a
\* committed row of the trace store, and that row has the record's event_id.
C36_RecordNamesCommittedRow ==
    \A i \in DOMAIN cdc :
        /\ cdc[i].sequence \in DOMAIN trace
        /\ trace[cdc[i].sequence].event.event_id = cdc[i].event_id

\* C36 witness: two flushes have published one record each for two events
\* of equal event_id
C36_Witness ==
    /\ Len(cdc) = 2 /\ Len(trace) = 2
    /\ cdc[1].event_id = cdc[2].event_id
    /\ cdc[1].sequence /= cdc[2].sequence

\* the ingest-stream entries of the rows the current flush has written
FlushWritten ==
    {trace[i].mid : i \in (Len(trace) - Len(batch) + 1)..Len(trace)}

\* C37: batch and message_ids always have the same length and correspond
\* position by position, and the XACK of a flush acknowledges exactly the
\* entries whose events that flush wrote.
C37_BatchIdsAligned ==
    /\ [](/\ Len(batch) = Len(message_ids)
          /\ \A i \in DOMAIN batch : batch[i].mid = message_ids[i])
    /\ [][FlushAck => mq_acked' \ mq_acked = FlushWritten]_vars

\* C37 witness: a flush of one event was acknowledged while an unparseable
\* entry of the same read stays pending
C37_Witness ==
    /\ Cardinality(mq_acked) = 1
    /\ \E id \in mq_pel : ~mq[id].json
    /\ batch = <<>> /\ Len(trace) = 1

\* C38: between loop steps the batch holds fewer than batch_size events, and
\* a flush never has more than batch_size events to write.
C38_SizeTriggeredFlush ==
    /\ c_pc \in {"read", "parse"} => Len(batch) < BatchSize
    /\ Len(batch) <= BatchSize

\* C38 witness: the batch reached batch_size inside the for loop and
\* _flush_batch was called from there
C38_Witness ==
    /\ c_pc = "flush" /\ ret = "parse"
    /\ Len(batch) = BatchSize

\* C39: a conversation's total_changes equals the number of code-change
\* rows recorded for it.
C39_TotalChangesCountsRows ==
    \A cid \in DOMAIN conversations :
        conversations[cid].total_changes = changes_total(code_changes, cid)

\* C40: a monitor tick whose stream query failed leaves the published
\* backpressure level as it was.
C40_FailedTickKeepsLevel ==
    sampled.failed => level = sampled.level_before

====
